---- MODULE Spec2Model ----
(***************************************************************************)
(* A model of vs_differ.py: the comparison pipeline of vs-differ.          *)
(*                                                                         *)
(*   SpecPkg    gather_packages: breadth-first package resolution          *)
(*   SpecVer    compute_versions / month_end_version                       *)
(*   SpecTrend  get_trending_status / is_change_significant                *)
(*   SpecRows   build_rows                                                 *)
(*   SpecExp    expand_valueset_count / parse_int / has_snomed_au_content  *)
(*   SpecScan   main: the package scan and the de-duplication of bindings  *)
(*   SpecVal    validate_versions_on_server                                *)
(*   SpecRep    main: versions_with_data, the sort and the writers' call   *)
(*   SpecMain   main: the whole run and the status it returns              *)
(*                                                                         *)
(* Each specification runs one function of the program from every input    *)
(* of a bounded set; the variables of the other functions stay idle.       *)
(***************************************************************************)
EXTENDS Integers, Sequences, FiniteSets, TLC

VARIABLES
    \* gather_packages
    cache,        \* the package cache: existing (id, version) |-> its manifest
    root,         \* (root_id, root_version)
    visited,      \* visited: Set[Tuple[str, str]]
    queue,        \* queue: List[Tuple[str, str]]
    packages,     \* packages: the list being returned
    reads,        \* how many times each package's package.json was read
    marks,        \* how many times each pair was added to visited
    pcG,          \* "idle" | "loop" | "done"
    \* compute_versions
    count,        \* count: int
    today,        \* today: the reference date
    versions,     \* versions: the list being returned
    year,         \* year
    month,        \* month
    iter,         \* iterations of "for _ in range(count)" completed
    pcV,          \* "idle" | "start" | "loop" | "done" | "raised"
    \* is_change_significant
    base_value,   \* base_value
    new_value,    \* new_value
    significant,  \* the first element of the tuple returned
    pcS,          \* "idle" | "call" | "done"
    \* get_trending_status
    row,          \* row: release id |-> cell (None where the key is absent)
    version_columns, \* version_columns: release ids, newest first
    trending,     \* trending: release id |-> "" or "trending-down"
    idx,          \* i of "for i in range(len(version_columns) - 1)"
    pcT,          \* "idle" | "start" | "loop" | "done"
    \* build_rows
    deduped,      \* deduped: the bindings
    valueset_index, \* valueset_index: url |-> value-set definition
    row_versions, \* versions: the release ids to expand
    rows,         \* rows: one row per retained binding
    new_row,      \* row: the row being filled
    item,         \* items of "for item in deduped" completed
    vidx,         \* versions of "for version in versions" completed
    calls,        \* the calls of expand_func made so far
    result,       \* result: the list returned
    pcR,          \* "idle" | "item" | "expand" | "group" | "done"
    \* expand_valueset_count
    valueset_def,    \* valueset_def: the definition supplied, or None
    snomed_version,  \* snomed_version: the release asked for
    response,        \* what requests.get gave: an error or a response
    requests_made,   \* the calls of requests.get made
    expansion_count, \* the count returned
    valueset_title,  \* the title returned
    pcE,             \* "idle" | "call" | "response" | "done" | "raised"
    \* main: the scan of the packages and the dedup step
    scan_packages,   \* packages: the files of each package scanned, in order
    pkg_idx,         \* packages of "for ... in packages" completed
    bound_valuesets, \* bound_valuesets
    scan_index,      \* valueset_index, in insertion order
    seen,            \* seen
    scan_deduped,    \* deduped
    dedup_idx,       \* items of "for item in bound_valuesets" completed
    pcM,             \* "idle" | "scan" | "collect" | "check" | "dedup" | "done" | "exit1"
    \* validate_versions_on_server
    val_index,       \* valueset_index, in insertion order
    val_versions,    \* versions: the candidates
    probe_url,       \* url: the value set probed, or <<>>
    valid_versions,  \* valid_versions
    probes,          \* the calls of expand_valueset_count made
    val_idx,         \* versions of "for version in versions" completed
    val_result,      \* the list returned
    pcP,             \* "idle" | "find" | "probe" | "done"
    \* main: from build_rows to the writers
    report_rows,     \* rows
    report_versions, \* versions
    versions_with_data, \* versions_with_data
    written,         \* what the writers were called with
    pcW,             \* "idle" | "filter" | "pop" | "write" | "done"
    \* main: the whole run
    main_igs,        \* igs: what each configured IG holds in the cache
    main_dev,        \* dev_mode, and whether the TSV file exists and reads
    ig_idx,          \* IGs of "for ig in igs" completed
    main_bound,      \* bound_valuesets
    main_index,      \* valueset_index, in insertion order
    main_deduped,    \* deduped
    main_today,      \* dt.date.today(), or <<>> before it is read
    main_versions,   \* versions
    main_validated,  \* what validate_versions_on_server returned
    main_sctver,     \* args.sctver, or <<>> before it is read
    main_idx,        \* versions of "for version in versions" completed
    main_item,       \* items of build_rows' "for item in deduped" completed
    main_requests,   \* the expansion requests issued, in order
    in_flight,       \* requests issued and not yet answered
    outputs,         \* the output files written
    rows_called,     \* build_rows has been called
    status,          \* "running" | "0" | "1" (what main returned) | "raised"
    pcMain           \* where main is

pkgVars == <<cache, root, visited, queue, packages, reads, marks, pcG>>

verVars == <<count, today, versions, year, month, iter, pcV>>

sigVars == <<base_value, new_value, significant, pcS>>

trendVars == <<row, version_columns, trending, idx, pcT>>

rowVars ==
    <<deduped, valueset_index, row_versions, rows, new_row, item, vidx, calls,
      result, pcR>>

expVars ==
    <<valueset_def, snomed_version, response, requests_made, expansion_count,
      valueset_title, pcE>>

scanVars ==
    <<scan_packages, pkg_idx, bound_valuesets, scan_index, seen, scan_deduped,
      dedup_idx, pcM>>

valVars ==
    <<val_index, val_versions, probe_url, valid_versions, probes, val_idx,
      val_result, pcP>>

repVars == <<report_rows, report_versions, versions_with_data, written, pcW>>

mainVars ==
    <<main_igs, main_dev, ig_idx, main_bound, main_index, main_deduped,
      main_today, main_versions, main_validated, main_sctver, main_idx,
      main_item, main_requests, in_flight, outputs, rows_called, status, pcMain>>

vars ==
    <<pkgVars, verVars, sigVars, trendVars, rowVars, expVars, scanVars, valVars,
        repVars, mainVars>>

\* what each function leaves alone: the state of the others
notPkg ==
    <<verVars, sigVars, trendVars, rowVars, expVars, scanVars, valVars, repVars,
        mainVars>>

notVer ==
    <<pkgVars, sigVars, trendVars, rowVars, expVars, scanVars, valVars, repVars,
        mainVars>>

notSig ==
    <<pkgVars, verVars, trendVars, rowVars, expVars, scanVars, valVars, repVars,
        mainVars>>

notTrend ==
    <<pkgVars, verVars, sigVars, rowVars, expVars, scanVars, valVars, repVars,
        mainVars>>

notRows ==
    <<pkgVars, verVars, sigVars, trendVars, expVars, scanVars, valVars, repVars,
        mainVars>>

notExp ==
    <<pkgVars, verVars, sigVars, trendVars, rowVars, scanVars, valVars, repVars,
        mainVars>>

notScan ==
    <<pkgVars, verVars, sigVars, trendVars, rowVars, expVars, valVars, repVars,
        mainVars>>

notVal ==
    <<pkgVars, verVars, sigVars, trendVars, rowVars, expVars, scanVars, repVars,
        mainVars>>

notRep ==
    <<pkgVars, verVars, sigVars, trendVars, rowVars, expVars, scanVars, valVars,
        mainVars>>

notMain ==
    <<pkgVars, verVars, sigVars, trendVars, rowVars, expVars, scanVars, valVars,
        repVars>>

----------------------------------------------------------------------------
(* Generic helpers                                                         *)

Range(s) == {s[i] : i \in DOMAIN s}

NoDuplicates(s) == \A i, j \in DOMAIN s : s[i] = s[j] => i = j

----------------------------------------------------------------------------
(* The state of a function that is not called in a specification           *)

IdlePkg ==
    /\ cache = <<>>
    /\ root = <<>>
    /\ visited = {}
    /\ queue = <<>>
    /\ packages = <<>>
    /\ reads = <<>>
    /\ marks = <<>>
    /\ pcG = "idle"

IdleVer ==
    /\ count = 0
    /\ today = <<>>
    /\ versions = <<>>
    /\ year = 0
    /\ month = 0
    /\ iter = 0
    /\ pcV = "idle"

IdleSig ==
    /\ base_value = 0
    /\ new_value = 0
    /\ significant = FALSE
    /\ pcS = "idle"

IdleTrend ==
    /\ row = <<>>
    /\ version_columns = <<>>
    /\ trending = <<>>
    /\ idx = 0
    /\ pcT = "idle"

IdleRows ==
    /\ deduped = <<>>
    /\ valueset_index = <<>>
    /\ row_versions = <<>>
    /\ rows = <<>>
    /\ new_row = <<>>
    /\ item = 0
    /\ vidx = 0
    /\ calls = <<>>
    /\ result = <<>>
    /\ pcR = "idle"

IdleExp ==
    /\ valueset_def = <<>>
    /\ snomed_version = <<>>
    /\ response = <<>>
    /\ requests_made = 0
    /\ expansion_count = <<>>
    /\ valueset_title = <<>>
    /\ pcE = "idle"

IdleScan ==
    /\ scan_packages = <<>>
    /\ pkg_idx = 0
    /\ bound_valuesets = <<>>
    /\ scan_index = <<>>
    /\ seen = {}
    /\ scan_deduped = <<>>
    /\ dedup_idx = 0
    /\ pcM = "idle"

IdleVal ==
    /\ val_index = <<>>
    /\ val_versions = <<>>
    /\ probe_url = <<>>
    /\ valid_versions = <<>>
    /\ probes = <<>>
    /\ val_idx = 0
    /\ val_result = <<>>
    /\ pcP = "idle"

IdleRep ==
    /\ report_rows = <<>>
    /\ report_versions = <<>>
    /\ versions_with_data = <<>>
    /\ written = <<>>
    /\ pcW = "idle"

IdleMain ==
    /\ main_igs = <<>>
    /\ main_dev = "off"
    /\ ig_idx = 0
    /\ main_bound = <<>>
    /\ main_index = <<>>
    /\ main_deduped = <<>>
    /\ main_today = <<>>
    /\ main_versions = <<>>
    /\ main_validated = <<>>
    /\ main_sctver = <<>>
    /\ main_idx = 0
    /\ main_item = 0
    /\ main_requests = <<>>
    /\ in_flight = 0
    /\ outputs = {}
    /\ rows_called = FALSE
    /\ status = "running"
    /\ pcMain = "idle"

IdleNotPkg ==
    IdleVer /\ IdleSig /\ IdleTrend /\ IdleRows /\ IdleExp /\ IdleScan /\
    IdleVal /\ IdleRep /\ IdleMain

IdleNotVer ==
    IdlePkg /\ IdleSig /\ IdleTrend /\ IdleRows /\ IdleExp /\ IdleScan /\
    IdleVal /\ IdleRep /\ IdleMain

IdleNotSig ==
    IdlePkg /\ IdleVer /\ IdleTrend /\ IdleRows /\ IdleExp /\ IdleScan /\
    IdleVal /\ IdleRep /\ IdleMain

IdleNotTrend ==
    IdlePkg /\ IdleVer /\ IdleSig /\ IdleRows /\ IdleExp /\ IdleScan /\
    IdleVal /\ IdleRep /\ IdleMain

IdleNotRows ==
    IdlePkg /\ IdleVer /\ IdleSig /\ IdleTrend /\ IdleExp /\ IdleScan /\
    IdleVal /\ IdleRep /\ IdleMain

IdleNotExp ==
    IdlePkg /\ IdleVer /\ IdleSig /\ IdleTrend /\ IdleRows /\ IdleScan /\
    IdleVal /\ IdleRep /\ IdleMain

IdleNotScan ==
    IdlePkg /\ IdleVer /\ IdleSig /\ IdleTrend /\ IdleRows /\ IdleExp /\
    IdleVal /\ IdleRep /\ IdleMain

IdleNotVal ==
    IdlePkg /\ IdleVer /\ IdleSig /\ IdleTrend /\ IdleRows /\ IdleExp /\
    IdleScan /\ IdleRep /\ IdleMain

IdleNotRep ==
    IdlePkg /\ IdleVer /\ IdleSig /\ IdleTrend /\ IdleRows /\ IdleExp /\
    IdleScan /\ IdleVal /\ IdleMain

IdleNotMain ==
    IdlePkg /\ IdleVer /\ IdleSig /\ IdleTrend /\ IdleRows /\ IdleExp /\
    IdleScan /\ IdleVal /\ IdleRep

----------------------------------------------------------------------------
(* gather_packages                                                         *)

\* Bound: the number of dependency declarations in the whole cache.
MaxDeps == 3

PackageIds == {"a", "b"}
PackageVersions == {"1", "2"}

\* PackageRef: (identifier, version)
PackageRefs == PackageIds \X PackageVersions

\* A manifest's "dependencies" object: a dict, so one version per dependency
\* id, iterated in insertion order.
Manifests ==
    {m \in UNION {[1..n -> PackageRefs] : n \in 0..Cardinality(PackageIds)} :
        \A i, j \in DOMAIN m : m[i][1] = m[j][1] => i = j}

RECURSIVE SumLen(_, _)
SumLen(c, ps) ==
    IF ps = {} THEN 0
    ELSE LET p == CHOOSE x \in ps : TRUE
         IN Len(c[p]) + SumLen(c, ps \ {p})

\* The caches: every set of existing package directories, each with a manifest.
Caches ==
    UNION {{c \in [ps -> Manifests] : SumLen(c, ps) <= MaxDeps} :
              ps \in SUBSET PackageRefs}

\* os.path.isdir(find_package_dir(cache_dir, package_id, version))
DirExists(c, p) == p \in DOMAIN c

\* a get_package_dependencies that answers with every directory of the cache
every_directory(c, p) ==
    CHOOSE s \in [1..Cardinality(DOMAIN c) -> DOMAIN c] : Range(s) = DOMAIN c

\* get_package_dependencies(package_dir).items()
get_package_dependencies(c, p) == c[p]

\* a gather_packages that forgets to mark
MarkVisitedForgotten(v, p) == v

\* visited.add((package_id, version))
MarkVisited(v, p) == v \cup {p}

\* a gather_packages that reads queue[0] and leaves it in the queue
DequeueKept(q) == q

\* queue.pop(0): what is left of the queue
Dequeue(q) == Tail(q)

\* a gather_packages that stops after the first dependency of a manifest
NewDepsFirstOnly(m, v) ==
    LET new == SelectSeq(m, LAMBDA d : d \notin v)
    IN IF new = <<>> THEN <<>> ELSE <<Head(new)>>

\* the dependencies appended: those not in visited, in manifest order
NewDeps(m, v) == SelectSeq(m, LAMBDA d : d \notin v)

InitPkg ==
    /\ IdleNotPkg
    /\ cache \in Caches
    /\ root \in PackageRefs
    /\ visited = {}
    /\ queue = <<root>>
    /\ packages = <<>>
    /\ reads = [p \in PackageRefs |-> 0]
    /\ marks = [p \in PackageRefs |-> 0]
    /\ pcG = "loop"

\* line 94-95: the dequeued pair was already visited
GatherSkipVisited ==
    /\ pcG = "loop"
    /\ queue # <<>>
    /\ Head(queue) \in visited
    /\ queue' = Dequeue(queue)
    /\ UNCHANGED <<cache, root, visited, packages, reads, marks, pcG, notPkg>>

\* line 96-100: the directory is missing: marked, warned, dropped
GatherMissing ==
    /\ pcG = "loop"
    /\ queue # <<>>
    /\ Head(queue) \notin visited
    /\ ~DirExists(cache, Head(queue))
    /\ visited' = MarkVisited(visited, Head(queue))
    /\ marks' = [marks EXCEPT ![Head(queue)] = @ + 1]
    /\ queue' = Dequeue(queue)
    /\ UNCHANGED <<cache, root, packages, reads, pcG, notPkg>>

\* line 96-105: marked, appended, its manifest read, its dependencies enqueued
GatherProcess ==
    /\ pcG = "loop"
    /\ queue # <<>>
    /\ Head(queue) \notin visited
    /\ DirExists(cache, Head(queue))
    /\ visited' = MarkVisited(visited, Head(queue))
    /\ marks' = [marks EXCEPT ![Head(queue)] = @ + 1]
    /\ packages' = Append(packages, Head(queue))
    /\ reads' = [reads EXCEPT ![Head(queue)] = @ + 1]
    /\ queue' = Dequeue(queue) \o
                    NewDeps(get_package_dependencies(cache, Head(queue)), visited')
    /\ UNCHANGED <<cache, root, pcG, notPkg>>

\* line 92, 107: the queue is empty: return packages
GatherReturn ==
    /\ pcG = "loop"
    /\ queue = <<>>
    /\ pcG' = "done"
    /\ UNCHANGED <<cache, root, visited, queue, packages, reads, marks, notPkg>>

NextPkg ==
    \/ GatherSkipVisited
    \/ GatherMissing
    \/ GatherProcess
    \/ GatherReturn

SpecPkg == InitPkg /\ [][NextPkg]_vars

\* The loop is the only thread of the program: it runs until it returns.
FairSpecPkg == SpecPkg /\ WF_vars(NextPkg)

----------------------------------------------------------------------------
(* Claims about gather_packages                                            *)

\* The cache holds a cycle A -> B -> A of two existing packages.
HasCycle ==
    \E p, q \in DOMAIN cache :
        /\ p # q
        /\ q \in Range(cache[p])
        /\ p \in Range(cache[q])

\* Two returned packages declare the same dependency.
HasSharedDep ==
    \E i, j \in DOMAIN packages :
        /\ i # j
        /\ Range(cache[packages[i]]) \cap Range(cache[packages[j]]) # {}

\* C1: whatever the dependency graph (cycles included), no (id, version) pair
\* is marked twice, none appears twice in the returned list and no manifest
\* is read more than once.
C1_VisitedOnce ==
    /\ NoDuplicates(packages)
    /\ \A p \in PackageRefs : reads[p] <= 1 /\ marks[p] <= 1

\* a run over a cycle A -> B -> A has returned both packages
C1_Witness ==
    /\ pcG = "done"
    /\ HasCycle
    /\ \E p, q \in Range(packages) :
           p # q /\ q \in Range(cache[p]) /\ p \in Range(cache[q])

\* C2: gather_packages terminates: the queue empties and the list is
\* returned, for cyclic graphs and repeated declarations alike.
C2_Terminates == <>(pcG = "done" /\ queue = <<>>)

\* a run has returned although a dependency was declared by two packages
C2_Witness ==
    /\ pcG = "done"
    /\ queue = <<>>
    /\ HasSharedDep

\* the pairs reachable from the root through existing directories
RECURSIVE ReachFrom(_, _)
ReachFrom(c, r) ==
    LET more == {d \in UNION {Range(c[p]) : p \in r} : d \in DOMAIN c}
    IN IF more \subseteq r THEN r ELSE ReachFrom(c, r \cup more)

Reachable(c, rt) == IF rt \in DOMAIN c THEN ReachFrom(c, {rt}) ELSE {}

\* C3: the returned set is exactly the set of pairs reachable from the root
\* through packages whose directory exists.
C3_ExactlyReachable ==
    pcG = "done" => Range(packages) = Reachable(cache, root)

\* a run has returned two packages, dropped a declared package whose
\* directory is missing, and left out an existing package nothing reaches
C3_Witness ==
    /\ pcG = "done"
    /\ Len(packages) >= 2
    /\ \E p \in Range(packages) : \E d \in Range(cache[p]) : d \notin DOMAIN cache
    /\ \E e \in DOMAIN cache : e \notin Range(packages)

\* packages[i] is declared by the manifest of a package earlier in the list
DeclaredEarlier(i) ==
    \E j \in 1..(i - 1) : packages[i] \in Range(cache[packages[j]])

\* C27: in the list gather_packages builds and returns, the root (when its
\* directory exists) is first and every other package comes after at least
\* one package whose manifest declares it as a dependency.
C27_DeclaredBeforeListed ==
    /\ DirExists(cache, root) /\ packages # <<>> => packages[1] = root
    /\ \A i \in 2..Len(packages) : DeclaredEarlier(i)

\* a run has returned three packages, the last declared by the second only
C27_Witness ==
    /\ pcG = "done"
    /\ Len(packages) = 3
    /\ packages[1] = root
    /\ packages[3] \notin Range(cache[root])
    /\ packages[3] \in Range(cache[packages[2]])

----------------------------------------------------------------------------
(* compute_versions and month_end_version                                  *)

\* Bound: the largest count compute_versions is called with.
MaxCount == 4

\* datetime.MINYEAR and datetime.MAXYEAR: dt.date raises ValueError outside
MINYEAR == 1
MAXYEAR == 9999

\* The years of the reference dates: the first year of the calendar, a
\* century year that is no leap year, one that is, and two ordinary years.
TodayYears == {1, 1900, 2000, 2023, 2024}

\* calendar.isleap as written with the century rule forgotten
isleapJulian(y) == y % 4 = 0

\* calendar.isleap
isleap(y) == y % 4 = 0 /\ (y % 100 # 0 \/ y % 400 = 0)

\* calendar.mdays
mdays == <<31, 28, 31, 30, 31, 30, 31, 31, 30, 31, 30, 31>>

\* calendar.monthrange(year, month)[1]
monthrange(y, m) == mdays[m] + (IF m = 2 /\ isleap(y) THEN 1 ELSE 0)

\* dt.date(year, month, day) is constructed without ValueError
DateValid(y, m, d) ==
    /\ y \in MINYEAR..MAXYEAR
    /\ m \in 1..12
    /\ d \in 1..monthrange(y, m)

Dates ==
    {dte \in [year : TodayYears, month : 1..12, day : {1, 15, 28}] :
        DateValid(dte.year, dte.month, dte.day)}

\* the decimal digits of a natural number, most significant first
RECURSIVE Digits(_)
Digits(n) == IF n < 10 THEN <<n>> ELSE Append(Digits(n \div 10), n % 10)

\* format(n, "0<w>d"): zero-padded to at least w digits, never cut
ZeroPad(n, w) ==
    LET d == Digits(n)
    IN IF Len(d) >= w THEN d ELSE [i \in 1..(w - Len(d)) |-> 0] \o d

\* month_end_version(date_value): a release id is the sequence of its digits
month_end_version(dte) ==
    ZeroPad(dte.year, 4) \o ZeroPad(dte.month, 2)
        \o ZeroPad(monthrange(dte.year, dte.month), 2)

\* a step back that wraps the month and forgets the year
StepBackSameYear(y, m) == IF m - 1 = 0 THEN <<y, 12>> ELSE <<y, m - 1>>

\* line 194-197: month -= 1, wrapping to December of the year before
StepBack(y, m) == IF m - 1 = 0 THEN <<y - 1, 12>> ELSE <<y, m - 1>>

\* a loop that runs one iteration short
LoopDoneEarly(i, n) == i >= n - 1

\* line 191: "for _ in range(count)" is exhausted
LoopDone(i, n) == i >= n

InitVer ==
    /\ IdleNotVer
    /\ count \in -1..MaxCount
    /\ today \in Dates
    /\ versions = <<>>
    /\ year = 0
    /\ month = 0
    /\ iter = 0
    /\ pcV = "start"

\* line 185-186: count <= 0: return []
VersionsNone ==
    /\ pcV = "start"
    /\ count <= 0
    /\ pcV' = "done"
    /\ UNCHANGED <<count, today, versions, year, month, iter, notVer>>

\* line 187-190: year and month of the reference date
VersionsBegin ==
    /\ pcV = "start"
    /\ count > 0
    /\ year' = today.year
    /\ month' = today.month
    /\ pcV' = "loop"
    /\ UNCHANGED <<count, today, versions, iter, notVer>>

\* line 192-197: one iteration: the month's release id, then one month back
VersionsIterate ==
    /\ pcV = "loop"
    /\ ~LoopDone(iter, count)
    /\ DateValid(year, month, 1)
    /\ versions' = Append(versions,
                          month_end_version([year |-> year, month |-> month, day |-> 1]))
    /\ year' = StepBack(year, month)[1]
    /\ month' = StepBack(year, month)[2]
    /\ iter' = iter + 1
    /\ UNCHANGED <<count, today, pcV, notVer>>

\* line 192: dt.date(year, month, 1) raises ValueError
VersionsRaise ==
    /\ pcV = "loop"
    /\ ~LoopDone(iter, count)
    /\ ~DateValid(year, month, 1)
    /\ pcV' = "raised"
    /\ UNCHANGED <<count, today, versions, year, month, iter, notVer>>

\* line 198: return versions
VersionsReturn ==
    /\ pcV = "loop"
    /\ LoopDone(iter, count)
    /\ pcV' = "done"
    /\ UNCHANGED <<count, today, versions, year, month, iter, notVer>>

NextVer ==
    \/ VersionsNone
    \/ VersionsBegin
    \/ VersionsIterate
    \/ VersionsRaise
    \/ VersionsReturn

SpecVer == InitVer /\ [][NextVer]_vars

----------------------------------------------------------------------------
(* Claims about compute_versions                                           *)

\* the number a sequence of digits denotes
RECURSIVE DigitsValue(_)
DigitsValue(d) ==
    IF d = <<>> THEN 0
    ELSE 10 * DigitsValue(SubSeq(d, 1, Len(d) - 1)) + d[Len(d)]

IdYear(v) == DigitsValue(SubSeq(v, 1, 4))
IdMonth(v) == DigitsValue(SubSeq(v, 5, 6))
IdDay(v) == DigitsValue(SubSeq(v, 7, 8))

ReferenceIs(y, m, d) == today = [year |-> y, month |-> m, day |-> d]

\* C4 as stated: compute_versions(3, today=2024-03-15) returns
\* ["20240229", "20240131", "20231231"].
C4_AsStated ==
    (pcV = "done" /\ count = 3 /\ ReferenceIs(2024, 3, 15)) =>
        versions = << <<2,0,2,4,0,2,2,9>>, <<2,0,2,4,0,1,3,1>>, <<2,0,2,3,1,2,3,1>> >>

\* C4: compute_versions(3, today=2024-03-15) returns
\* ["20240331", "20240229", "20240131"]: the first release id is the month-end
\* of the reference date's own month; the leap-year February and the step back
\* across the year boundary are what compute_versions(3, today=2024-02-15)
\* returns, ["20240229", "20240131", "20231231"].
C4_FirstIsReferenceMonth ==
    /\ (pcV = "done" /\ count = 3 /\ ReferenceIs(2024, 3, 15)) =>
        versions = << <<2,0,2,4,0,3,3,1>>, <<2,0,2,4,0,2,2,9>>, <<2,0,2,4,0,1,3,1>> >>
    /\ (pcV = "done" /\ count = 3 /\ ReferenceIs(2024, 2, 15)) =>
        versions = << <<2,0,2,4,0,2,2,9>>, <<2,0,2,4,0,1,3,1>>, <<2,0,2,3,1,2,3,1>> >>

\* compute_versions(3, today=2024-03-15) has returned three ids
C4_Witness ==
    /\ pcV = "done"
    /\ count = 3
    /\ ReferenceIs(2024, 3, 15)
    /\ Len(versions) = 3

\* the months of the calendar at or before the reference date's month
MonthsAvailable == (today.year - MINYEAR) * 12 + today.month

\* one id per consecutive calendar month, backwards, newest first
ConsecutiveBackwards(vs) ==
    \A i \in 1..(Len(vs) - 1) :
        /\ DigitsValue(vs[i]) > DigitsValue(vs[i + 1])
        /\ IF IdMonth(vs[i]) = 1
           THEN IdMonth(vs[i + 1]) = 12 /\ IdYear(vs[i + 1]) = IdYear(vs[i]) - 1
           ELSE IdMonth(vs[i + 1]) = IdMonth(vs[i]) - 1 /\ IdYear(vs[i + 1]) = IdYear(vs[i])

\* C5 as stated: for count <= 0 the empty list; for every count > 0 and every
\* reference date exactly count ids, one per consecutive month backwards.
C5_AsStated ==
    pcV \in {"done", "raised"} =>
        /\ count <= 0 => pcV = "done" /\ versions = <<>>
        /\ count > 0 =>
              pcV = "done" /\ Len(versions) = count /\ ConsecutiveBackwards(versions)

\* C5: for count <= 0 the empty list; for count > 0 and a reference date with
\* at least count months of the calendar (year 1 onwards) at or before its
\* month, exactly count ids, one per consecutive month backwards, strictly
\* decreasing; with fewer months the call raises ValueError.
C5_WithinCalendar ==
    pcV \in {"done", "raised"} =>
        /\ count <= 0 => pcV = "done" /\ versions = <<>>
        /\ (count > 0 /\ MonthsAvailable >= count) =>
              pcV = "done" /\ Len(versions) = count /\ ConsecutiveBackwards(versions)
        /\ (count > 0 /\ MonthsAvailable < count) => pcV = "raised"

\* a call has returned count > 1 ids across a year boundary
C5_Witness ==
    /\ pcV = "done"
    /\ count > 1
    /\ Len(versions) = count
    /\ IdYear(versions[1]) # IdYear(versions[count])

\* the last calendar day of a month, by the calendar's rule
LastDayOf(y, m) ==
    IF m = 2
    THEN (IF (y % 4 = 0 /\ y % 100 # 0) \/ y % 400 = 0 THEN 29 ELSE 28)
    ELSE (IF m \in {4, 6, 9, 11} THEN 30 ELSE 31)

\* C6: every release id produced is 8 digits YYYYMMDD whose day is the last
\* calendar day of that month.
C6_EightDigitMonthEnd ==
    \A i \in DOMAIN versions :
        LET v == versions[i]
        IN /\ Len(v) = 8
           /\ \A k \in 1..8 : v[k] \in 0..9
           /\ IdMonth(v) \in 1..12
           /\ IdDay(v) = LastDayOf(IdYear(v), IdMonth(v))

\* a call has returned the February of 1900, no leap year, and the one of
\* 2000 or 2024 is returned by other calls
C6_Witness ==
    /\ pcV = "done"
    /\ \E i \in DOMAIN versions : versions[i] = <<1,9,0,0,0,2,2,8>>

----------------------------------------------------------------------------
(* is_change_significant                                                   *)
(*                                                                         *)
(* threshold = 0.5118 * base_value ** 0.6257 is a float.  TLC has integers *)
(* only, so the comparison "difference >= threshold" is decided on an      *)
(* enclosure: with exponent = 6257/10000 and coefficient = 5118/10000,     *)
(*     difference >= coefficient * base^exponent                           *)
(* <=> (10000 * difference)^10000 >= 5118^10000 * base^6257,               *)
(* and each side is enclosed between two binary floating-point numbers     *)
(* of 28 bits, every product rounded down for the lower end and up for the *)
(* upper end.  Where the enclosures are apart the comparison is decided,   *)
(* and the float computation (whose relative error is of the order 1e-15,  *)
(* far below the width 1e-7 of the enclosure) decides it the same way;     *)
(* where they overlap either outcome is possible.                          *)

\* exponent = 0.6257 and coefficient = 0.5118, in ten-thousandths
exponent == 6257
coefficient == 5118
TenThousand == 10 ^ 4

\* a float of the enclosure: [m |-> mantissa, e |-> exponent], value m * 2^e,
\* 2^27 <= m < 2^28; a mantissa is two limbs of 14 bits
LimbBits == 14
Limb == 2 ^ LimbBits
MantissaBits == 2 * LimbBits
MantissaMin == 2 ^ (MantissaBits - 1)
MantissaMax == 2 ^ MantissaBits

RECURSIVE NormUp(_, _)
NormUp(m, e) == IF m >= MantissaMin THEN [m |-> m, e |-> e] ELSE NormUp(2 * m, e - 1)

NormLo(p, e) == IF p >= MantissaMax THEN [m |-> p \div 2, e |-> e + 1] ELSE NormUp(p, e)

NormHi(p, e) == IF p >= MantissaMax THEN [m |-> p \div 2 + 1, e |-> e + 1] ELSE NormUp(p, e)

\* a positive integer below 2^28, exactly
FromInt(n) == NormUp(n, 0)

\* floor of (u.m * v.m) / 2^28 less the part of the low limbs: the exact
\* quotient lies in [MulTop, MulTop + 2)
MulTop(u, v) ==
    LET uh == u.m \div Limb
        ul == u.m % Limb
        vh == v.m \div Limb
        vl == v.m % Limb
    IN uh * vh + (uh * vl + ul * vh) \div Limb

MulLo(f, g) == NormLo(MulTop(f, g), f.e + g.e + MantissaBits)

MulHi(f, g) == NormHi(MulTop(f, g) + 2, f.e + g.e + MantissaBits)

\* x^n by repeated squaring, rounded down; the half power is computed first
RECURSIVE PowLo(_, _)
PowLo(x, n) ==
    IF n = 1 THEN x
    ELSE CHOOSE pw \in {IF n % 2 = 1 THEN MulLo(MulLo(h, h), x) ELSE MulLo(h, h) :
                          h \in {PowLo(x, n \div 2)}} : TRUE

\* x^n by repeated squaring, rounded up
RECURSIVE PowHi(_, _)
PowHi(x, n) ==
    IF n = 1 THEN x
    ELSE CHOOSE pw \in {IF n % 2 = 1 THEN MulHi(MulHi(h, h), x) ELSE MulHi(h, h) :
                          h \in {PowHi(x, n \div 2)}} : TRUE

FloatGE(f, g) == f.e > g.e \/ (f.e = g.e /\ f.m >= g.m)

\* (10000 * d)^10000 >= 5118^10000 * b^6257 for certain, for d, b >= 1
CertainlyAtLeast(d, b) ==
    FloatGE(PowLo(MulLo(FromInt(d), FromInt(TenThousand)), TenThousand),
            MulHi(PowHi(FromInt(coefficient), TenThousand), PowHi(FromInt(b), exponent)))

\* (10000 * d)^10000 < 5118^10000 * b^6257 for certain, for d, b >= 1
CertainlyBelow(d, b) ==
    ~FloatGE(PowHi(MulHi(FromInt(d), FromInt(TenThousand)), TenThousand),
             MulLo(PowLo(FromInt(coefficient), TenThousand), PowLo(FromInt(b), exponent)))

\* the outcomes of "difference >= coefficient * (base_value ** exponent)"
\* for integers difference and base_value >= 0 (0 ** 0.6257 is 0.0)
AtLeastThreshold(d, b) ==
    IF b = 0 THEN {d >= 0}
    ELSE IF d <= 0 THEN {FALSE}
    ELSE IF CertainlyAtLeast(d, b) THEN {TRUE}
    ELSE IF CertainlyBelow(d, b) THEN {FALSE}
    ELSE BOOLEAN

\* a difference taken without abs()
differenceSigned(base, new) == new - base

\* line 368: difference = abs(new_value - base_value)
difference(base, new) == IF new - base < 0 THEN base - new ELSE new - base

\* is_change_significant(base_value, new_value)[0]: the possible outcomes
is_change_significant(base, new) == AtLeastThreshold(difference(base, new), base)

\* The counts the functions are run on: the two calibration points of the
\* threshold with the drops next to it, and small and ordinary counts.
CountValues == {0, 1, 100, 353, 475, 476, 500, 508, 59500, 59501, 60000}

\* is_change_significant on CountValues, computed once
SignificantOn ==
    [b \in CountValues |-> [n \in CountValues |-> is_change_significant(b, n)]]

InitSig ==
    /\ IdleNotSig
    /\ base_value \in CountValues
    /\ new_value \in CountValues
    /\ significant = FALSE
    /\ pcS = "call"

\* line 362-378: one call
SignificanceCall ==
    /\ pcS = "call"
    /\ significant' \in SignificantOn[base_value][new_value]
    /\ pcS' = "done"
    /\ UNCHANGED <<base_value, new_value, notSig>>

NextSig == SignificanceCall

SpecSig == InitSig /\ [][NextSig]_vars

----------------------------------------------------------------------------
(* Claims about is_change_significant                                      *)

Abs(n) == IF n < 0 THEN -n ELSE n

CallWas(b, n) == pcS = "done" /\ base_value = b /\ new_value = n

\* C9: significant exactly when |new - base| >= 0.5118 * base^0.6257; at
\* base 500 a drop of 25 is significant and one of 24 is not, at base 60000
\* a drop of 500 is significant and one of 499 is not.
C9_ThresholdCalibration ==
    /\ CallWas(500, 475) => significant
    /\ CallWas(500, 476) => ~significant
    /\ CallWas(60000, 59500) => significant
    /\ CallWas(60000, 59501) => ~significant
    /\ pcS = "done" =>
          LET d == Abs(new_value - base_value)
          IN /\ significant => (base_value = 0 \/ (d > 0 /\ ~CertainlyBelow(d, base_value)))
             /\ ~significant => (base_value > 0 /\ (d = 0 \/ ~CertainlyAtLeast(d, base_value)))

\* the call with base 500 and a drop of exactly 25 has reported significant
C9_Witness == CallWas(500, 475) /\ significant

----------------------------------------------------------------------------
(* get_trending_status                                                     *)

\* Bound: the length of version_columns.
MaxReleases == 3

\* The release ids of the columns: the month ends of April to July 2025.
ReleasePool ==
    {month_end_version([year |-> 2025, month |-> m, day |-> 1]) : m \in 4..7}

R20250531 == month_end_version([year |-> 2025, month |-> 5, day |-> 1])
R20250630 == month_end_version([year |-> 2025, month |-> 6, day |-> 1])

\* The values of a row's cell: None (also what row.get gives for an absent
\* key), an int, or a str (a row loaded from a TSV file holds strs), the str
\* being the sequence of its characters.
NoneCell == [type |-> "NoneType", num |-> 0, text |-> <<>>]
IntCell(n) == [type |-> "int", num |-> n, text |-> <<>>]
StrCell(t) == [type |-> "str", num |-> 0, text |-> t]

TrendCounts == {100, 353, 500, 508}

Cells ==
    {NoneCell, StrCell(<<>>), StrCell(<<"n", "/", "a">>), StrCell(<<"5", "0", "8">>)}
        \cup {IntCell(n) : n \in TrendCounts}

DigitChars == <<"0", "1", "2", "3", "4", "5", "6", "7", "8", "9">>

IsDigitChar(c) == \E k \in DOMAIN DigitChars : DigitChars[k] = c

DigitOf(c) == (CHOOSE k \in DOMAIN DigitChars : DigitChars[k] = c) - 1

\* line 490: the cell is "" or None
IsBlank(cell) == cell.type = "NoneType" \/ (cell.type = "str" /\ cell.text = <<>>)

\* line 494-495: int(value) does not raise ValueError or TypeError
IntParses(cell) ==
    \/ cell.type = "int"
    \/ /\ cell.type = "str"
       /\ cell.text # <<>>
       /\ \A k \in DOMAIN cell.text : IsDigitChar(cell.text[k])

RECURSIVE ParseDecimal(_)
ParseDecimal(t) ==
    IF t = <<>> THEN 0
    ELSE 10 * ParseDecimal(SubSeq(t, 1, Len(t) - 1)) + DigitOf(t[Len(t)])

\* line 494-495: int(value)
IntOf(cell) == IF cell.type = "int" THEN cell.num ELSE ParseDecimal(cell.text)

\* a loop that marks the older release of the pair
current_version_older(vc, i) == vc[i + 2]

\* line 484: version_columns[i], the newer release (i counts from 0)
current_version(vc, i) == vc[i + 1]

\* a loop that looks past blank cells for the nearest older release with data
nearest_older_with_data(vc, i) ==
    LET filled == {j \in (i + 2)..Len(vc) : ~IsBlank(row[vc[j]])}
    IN IF filled = {} THEN vc[i + 2]
       ELSE vc[CHOOSE j \in filled : \A k \in filled : j <= k]

\* line 485: version_columns[i + 1], the older release
next_older_version(vc, i) == vc[i + 2]

\* a comparison that looks for a rise
IsDropReversed(current_int, next_int) == current_int > next_int

\* line 497: current_int < next_int
IsDrop(current_int, next_int) == current_int < next_int

\* the lists of distinct release ids, up to MaxReleases long
VersionLists ==
    {vc \in UNION {[1..n -> ReleasePool] : n \in 0..MaxReleases} : NoDuplicates(vc)}

InitTrend ==
    /\ IdleNotTrend
    /\ version_columns \in VersionLists
    /\ row \in [Range(version_columns) -> Cells]
    /\ trending = <<>>
    /\ idx = 0
    /\ pcT = "start"

CurrentCell == row[current_version(version_columns, idx)]
NextCell == row[next_older_version(version_columns, idx)]

InTrendLoop == pcT = "loop" /\ idx < Len(version_columns) - 1

\* line 476-480: every cell starts as not trending
TrendBegin ==
    /\ pcT = "start"
    /\ trending' = [v \in Range(version_columns) |-> ""]
    /\ pcT' = "loop"
    /\ UNCHANGED <<row, version_columns, idx, notTrend>>

\* line 490-491: one of the two values is "" or None
TrendSkipBlank ==
    /\ InTrendLoop
    /\ IsBlank(CurrentCell) \/ IsBlank(NextCell)
    /\ idx' = idx + 1
    /\ UNCHANGED <<row, version_columns, trending, pcT, notTrend>>

\* line 493-495, 501-502: int() raises, the pair is skipped
TrendSkipNotInt ==
    /\ InTrendLoop
    /\ ~IsBlank(CurrentCell) /\ ~IsBlank(NextCell)
    /\ ~IntParses(CurrentCell) \/ ~IntParses(NextCell)
    /\ idx' = idx + 1
    /\ UNCHANGED <<row, version_columns, trending, pcT, notTrend>>

\* line 497: the newer value is not less than the older one
TrendNoDrop ==
    /\ InTrendLoop
    /\ ~IsBlank(CurrentCell) /\ ~IsBlank(NextCell)
    /\ IntParses(CurrentCell) /\ IntParses(NextCell)
    /\ ~IsDrop(IntOf(CurrentCell), IntOf(NextCell))
    /\ idx' = idx + 1
    /\ UNCHANGED <<row, version_columns, trending, pcT, notTrend>>

\* line 497-500: a drop, significant or not
TrendDrop ==
    /\ InTrendLoop
    /\ ~IsBlank(CurrentCell) /\ ~IsBlank(NextCell)
    /\ IntParses(CurrentCell) /\ IntParses(NextCell)
    /\ IsDrop(IntOf(CurrentCell), IntOf(NextCell))
    /\ \E is_significant \in SignificantOn[IntOf(NextCell)][IntOf(CurrentCell)] :
          trending' = IF is_significant
                      THEN [trending EXCEPT
                               ![current_version(version_columns, idx)] = "trending-down"]
                      ELSE trending
    /\ idx' = idx + 1
    /\ UNCHANGED <<row, version_columns, pcT, notTrend>>

\* line 483, 504: the pairs are exhausted: return trending
TrendReturn ==
    /\ pcT = "loop"
    /\ ~(idx < Len(version_columns) - 1)
    /\ pcT' = "done"
    /\ UNCHANGED <<row, version_columns, trending, idx, notTrend>>

NextTrend ==
    \/ TrendBegin
    \/ TrendSkipBlank
    \/ TrendSkipNotInt
    \/ TrendNoDrop
    \/ TrendDrop
    \/ TrendReturn

SpecTrend == InitTrend /\ [][NextTrend]_vars

----------------------------------------------------------------------------
(* Claims about get_trending_status                                        *)

Flagged(v) == trending[v] = "trending-down"

\* the row of the example: 20250531 = 508 and 20250630 = 353
ExampleRow ==
    /\ Range(version_columns) = {R20250531, R20250630}
    /\ row[R20250531] = IntCell(508)
    /\ row[R20250630] = IntCell(353)

\* C7 as stated: with the list ["20250531", "20250630"] the release 20250531
\* is flagged.
C7_AsStated ==
    (pcT = "done" /\ ExampleRow /\ version_columns = <<R20250531, R20250630>>)
        => Flagged(R20250531)

\* C7: on the row 20250531 = 508, 20250630 = 353 the list
\* ["20250531", "20250630"] flags nothing (its first, newer, entry holds the
\* larger count: a rise); the newest-first list ["20250630", "20250531"]
\* flags "20250630" and only it: the flag lands on the newer release, the one
\* holding the smaller count.
C7_FlagOnNewerSmaller ==
    /\ (pcT = "done" /\ ExampleRow /\ version_columns = <<R20250531, R20250630>>)
          => (~Flagged(R20250531) /\ ~Flagged(R20250630))
    /\ (pcT = "done" /\ ExampleRow /\ version_columns = <<R20250630, R20250531>>)
          => (Flagged(R20250630) /\ ~Flagged(R20250531))

\* the call on the example row with the list ["20250630", "20250531"] has
\* returned with a flag
C7_Witness ==
    /\ pcT = "done"
    /\ ExampleRow
    /\ version_columns = <<R20250630, R20250531>>
    /\ \E v \in Range(version_columns) : Flagged(v)

\* the count a cell holds, if it holds one
HoldsCount(cell) ==
    \/ cell.type = "int"
    \/ cell.type = "str" /\ cell.text # <<>> /\
          \A k \in DOMAIN cell.text : cell.text[k] \in Range(DigitChars)

CountIn(cell) == IF cell.type = "int" THEN cell.num ELSE ParseDecimal(cell.text)

\* C8: the release at index i is flagged exactly when index i+1 exists, both
\* counts are present, the count at i is strictly less than the one at i+1 and
\* is_change_significant(count[i+1], count[i]) is true; so the last release is
\* never flagged.
C8_FlagExactlyOnSignificantDrop ==
    pcT = "done" =>
        \A i \in DOMAIN version_columns :
            Flagged(version_columns[i]) <=>
                /\ i + 1 \in DOMAIN version_columns
                /\ HoldsCount(row[version_columns[i]])
                /\ HoldsCount(row[version_columns[i + 1]])
                /\ CountIn(row[version_columns[i]]) < CountIn(row[version_columns[i + 1]])
                /\ TRUE \in SignificantOn[CountIn(row[version_columns[i + 1]])]
                                         [CountIn(row[version_columns[i]])]

\* a call over three releases has flagged one, passed a drop that is not
\* significant and left the last release alone
C8_Witness ==
    /\ pcT = "done"
    /\ Len(version_columns) = 3
    /\ Flagged(version_columns[1])
    /\ row[version_columns[2]] = IntCell(500)
    /\ row[version_columns[3]] = IntCell(508)
    /\ ~Flagged(version_columns[2])
    /\ ~Flagged(version_columns[3])

\* the index of the nearest release older than index i that holds a count
\* (0 when there is none)
NearestOlderWithCount(i) ==
    LET filled == {j \in (i + 1)..Len(version_columns) :
                      HoldsCount(row[version_columns[j]])}
    IN IF filled = {} THEN 0 ELSE CHOOSE j \in filled : \A k \in filled : j <= k

SignificantDrop(i, j) ==
    /\ CountIn(row[version_columns[i]]) < CountIn(row[version_columns[j]])
    /\ TRUE \in SignificantOn[CountIn(row[version_columns[j]])]
                             [CountIn(row[version_columns[i]])]

\* C28 as stated: a release is flagged when its count is a significant
\* decrease from the nearest older release that holds a count, blank releases
\* in between being passed over.
C28_AsStated ==
    pcT = "done" =>
        \A i \in DOMAIN version_columns :
            (/\ HoldsCount(row[version_columns[i]])
             /\ NearestOlderWithCount(i) # 0
             /\ SignificantDrop(i, NearestOlderWithCount(i)))
                => Flagged(version_columns[i])

\* C28: a release is compared with the immediately older release of the list
\* only: it is flagged only on a significant decrease from that release, and
\* when that release has no data the comparison is skipped and the release
\* is not flagged, whatever the older releases hold.
C28_OnlyImmediatelyOlder ==
    pcT = "done" =>
        \A i \in DOMAIN version_columns :
            /\ Flagged(version_columns[i]) =>
                  /\ NearestOlderWithCount(i) = i + 1
                  /\ SignificantDrop(i, i + 1)
            /\ (i + 1 \in DOMAIN version_columns
                    /\ IsBlank(row[version_columns[i + 1]]))
                  => ~Flagged(version_columns[i])

\* a call on the counts 100, missing, 500 (newest first) has returned
\* without a flag on the newest release
C28_Witness ==
    /\ pcT = "done"
    /\ Len(version_columns) = 3
    /\ row[version_columns[1]] = IntCell(100)
    /\ row[version_columns[2]] = NoneCell
    /\ row[version_columns[3]] = IntCell(500)
    /\ ~Flagged(version_columns[1])

----------------------------------------------------------------------------
(* build_rows                                                              *)
(*                                                                         *)
(* A url is the sequence of its parts (scheme, "://", host, path), so that *)
(* str.startswith is a comparison of leading parts.                        *)

\* Bounds: the bindings given, the releases given, and the expansions asked
\* for in one call of build_rows.
MaxBindings == 2
MaxVersions == 2
MaxCalls == 4

NCTS_PREFIXES ==
    << <<"http", "://", "healthterminologies.gov.au">>,
       <<"https", "://", "healthterminologies.gov.au">>,
       <<"https", "://", "ranzcr.com">>,
       <<"https", "://", "www.rcpa.edu.au">>,
       <<"http", "://", "www.abs.gov.au">> >>

\* url.startswith(prefix)
startswith(url, prefix) ==
    Len(prefix) <= Len(url) /\ SubSeq(url, 1, Len(prefix)) = prefix

\* a filter that compares the host and forgets the scheme
is_ncts_valueset_any_scheme(url) ==
    \E k \in DOMAIN NCTS_PREFIXES : Len(url) >= 3 /\ url[3] = NCTS_PREFIXES[k][3]

\* is_ncts_valueset(url)
is_ncts_valueset(url) ==
    \E k \in DOMAIN NCTS_PREFIXES : startswith(url, NCTS_PREFIXES[k])

\* The value-set urls bound: two of regional authorities and one of a
\* regional host under a scheme that is not listed (VsOther, of another site,
\* is bound in the packages scanned).
VsTest == <<"http", "://", "healthterminologies.gov.au", "/valueset/test">>
VsRcpa == <<"https", "://", "www.rcpa.edu.au", "/fhir/ValueSet/spia">>
VsOther == <<"http", "://", "example.org", "/valueset/other">>
VsRanzcrHttp == <<"http", "://", "ranzcr.com", "/fhir/ValueSet/x">>

ValueSetUrls == {VsTest, VsRcpa, VsRanzcrHttp}

\* The structures binding them, as (name, url); the last has neither.
StructureDefinitions ==
    { <<"One", <<"http", "://", "example.org", "/StructureDefinition/One">> >>,
      <<"Two", <<"http", "://", "example.org", "/StructureDefinition/Two">> >>,
      <<"", <<>> >> }

Bindings ==
    {[valueset_url |-> u, structure_definition_url |-> sd[2],
      structure_definition_name |-> sd[1]] :
        u \in ValueSetUrls, sd \in StructureDefinitions}

\* an optional str: None or a str
NoneStr == [some |-> FALSE, str |-> ""]
SomeStr(t) == [some |-> TRUE, str |-> t]

\* x or y, for optional strs: the first that is truthy
Truthy(t) == t.some /\ t.str # ""

\* The indexes: the test value set not indexed, indexed with a name and a
\* title, and indexed with a title only.
ValueSetIndexes ==
    { <<>>,
      [u \in {VsTest} |-> [name |-> SomeStr("Test VS"), title |-> SomeStr("Test Title")]],
      [u \in {VsTest} |-> [name |-> NoneStr, title |-> SomeStr("Test Title")]] }

\* The releases given: the newest MaxVersions month ends of the pool or fewer.
ReleaseLists ==
    {<<>>, <<R20250630>>, <<R20250630, R20250531>>,
     <<R20250630, R20250531, month_end_version([year |-> 2025, month |-> 4, day |-> 1])>>}

\* What expand_func returns: (count, title), each possibly None.
ExpandResults ==
    [count : {NoneCell, IntCell(7)}, title : {NoneStr, SomeStr("Server Title")}]

\* The lists of bindings given to build_rows.
BindingLists == UNION {[1..n -> Bindings] : n \in 0..MaxBindings}

\* the expansions a call of build_rows asks for
CallsNeeded(bl, vs) ==
    Cardinality({i \in DOMAIN bl : is_ncts_valueset(bl[i].valueset_url)}) * Len(vs)

\* line 313: valueset_index.get(valueset_url) or {}
IndexGet(index, url) ==
    IF url \in DOMAIN index THEN index[url] ELSE [name |-> NoneStr, title |-> NoneStr]

\* a seed that prefers the title to the name
LocalTitleFirst(valueset) ==
    IF Truthy(valueset.title) THEN valueset.title.str
    ELSE IF Truthy(valueset.name) THEN valueset.name.str
    ELSE ""

\* line 314: valueset.get("name") or valueset.get("title") or ""
LocalName(valueset) ==
    IF Truthy(valueset.name) THEN valueset.name.str
    ELSE IF Truthy(valueset.title) THEN valueset.title.str
    ELSE ""

\* line 331: "" if count is None else count
CellOf(cnt) == IF cnt = NoneCell THEN StrCell(<<>>) ELSE cnt

\* a test that lets every structure through
sd_is_anything(sd_name, sd_url) == TRUE

\* line 345: if sd_name or sd_url
sd_is_given(sd_name, sd_url) == sd_name # "" \/ sd_url # <<>>

\* a grouping in which the row of the last binding of a value set wins
GroupLastWins(rs, grouped) ==
    LET first(k) == \A j \in 1..(k - 1) : rs[j].valueset_url # rs[k].valueset_url
        last(url) == CHOOSE k \in DOMAIN rs :
                        /\ rs[k].valueset_url = url
                        /\ \A j \in (k + 1)..Len(rs) : rs[j].valueset_url # url
        firsts == SelectSeq([k \in DOMAIN rs |-> k], first)
    IN [n \in DOMAIN firsts |->
           [structure_definitions |-> <<>>] @@ rs[last(rs[firsts[n]].valueset_url)]]

\* line 334-347: group the rows by valueset_url, in order of first appearance,
\* collecting the (name, url) of every row that has a name or a url
RECURSIVE GroupRows(_, _)
GroupRows(rs, grouped) ==
    IF rs = <<>> THEN grouped
    ELSE LET r == Head(rs)
             known == \E k \in DOMAIN grouped : grouped[k].valueset_url = r.valueset_url
             opened == IF known THEN grouped
                       ELSE Append(grouped, [structure_definitions |-> <<>>] @@ r)
             sd == <<r.structure_definition_name, r.structure_definition_url>>
             added == [k \in DOMAIN opened |->
                          IF opened[k].valueset_url = r.valueset_url
                             /\ sd_is_given(sd[1], sd[2])
                          THEN [opened[k] EXCEPT !.structure_definitions = Append(@, sd)]
                          ELSE opened[k]]
         IN GroupRows(Tail(rs), added)

\* line 350-358: the grouped rows without their structure definition columns
ResultRows(grouped) ==
    [k \in DOMAIN grouped |->
        [valueset_url |-> grouped[k].valueset_url,
         valueset_name |-> grouped[k].valueset_name,
         counts |-> grouped[k].counts,
         structure_definitions |-> grouped[k].structure_definitions]]

InitRows ==
    /\ IdleNotRows
    /\ deduped \in BindingLists
    /\ valueset_index \in ValueSetIndexes
    /\ row_versions \in {vs \in ReleaseLists : Len(vs) <= MaxVersions}
    /\ CallsNeeded(deduped, row_versions) <= MaxCalls
    /\ rows = <<>>
    /\ new_row = <<>>
    /\ item = 0
    /\ vidx = 0
    /\ calls = <<>>
    /\ result = <<>>
    /\ pcR = "item"

\* a loop that reads the first binding on every round
FirstItem == deduped[1]

\* line 305: for item in deduped
CurrentItem == deduped[item + 1]

\* line 305-311: the binding's value set is not a regional one: skipped
RowsSkip ==
    /\ pcR = "item"
    /\ item < Len(deduped)
    /\ ~is_ncts_valueset(CurrentItem.valueset_url)
    /\ item' = item + 1
    /\ UNCHANGED <<deduped, valueset_index, row_versions, rows, new_row, vidx,
                   calls, result, pcR, notRows>>

\* line 313-321: the row of a regional value set is opened
RowsOpen ==
    /\ pcR = "item"
    /\ item < Len(deduped)
    /\ is_ncts_valueset(CurrentItem.valueset_url)
    /\ new_row' =
          [valueset_url |-> CurrentItem.valueset_url,
           valueset_name |-> LocalName(IndexGet(valueset_index, CurrentItem.valueset_url)),
           structure_definition_url |-> CurrentItem.structure_definition_url,
           structure_definition_name |-> CurrentItem.structure_definition_name,
           counts |-> <<>>]
    /\ vidx' = 0
    /\ pcR' = "expand"
    /\ UNCHANGED <<deduped, valueset_index, row_versions, rows, item, calls,
                   result, notRows>>

\* a loop that writes every count under the first release
version_first(vs, i) == vs[1]

\* line 325: for version in versions (i counts from 0)
version_at(vs, i) == vs[i + 1]

\* line 325-331: one call of expand_func and the cell it fills
RowsExpand ==
    /\ pcR = "expand"
    /\ vidx < Len(row_versions)
    /\ \E answer \in ExpandResults :
          LET version == version_at(row_versions, vidx)
              named == IF new_row.valueset_name = "" /\ Truthy(answer.title)
                       THEN [new_row EXCEPT !.valueset_name = answer.title.str]
                       ELSE new_row
          IN /\ calls' = Append(calls, [url |-> new_row.valueset_url, version |-> version,
                                        count |-> answer.count, title |-> answer.title])
             /\ new_row' = [named EXCEPT !.counts =
                               (version :> CellOf(answer.count)) @@ named.counts]
    /\ vidx' = vidx + 1
    /\ UNCHANGED <<deduped, valueset_index, row_versions, rows, item, result,
                   pcR, notRows>>

\* line 332: rows.append(row)
RowsAppend ==
    /\ pcR = "expand"
    /\ vidx >= Len(row_versions)
    /\ rows' = Append(rows, new_row)
    /\ item' = item + 1
    /\ pcR' = "item"
    /\ UNCHANGED <<deduped, valueset_index, row_versions, new_row, vidx, calls,
                   result, notRows>>

\* line 334-360: the rows are grouped and returned
RowsGroup ==
    /\ pcR = "item"
    /\ item >= Len(deduped)
    /\ result' = ResultRows(GroupRows(rows, <<>>))
    /\ pcR' = "done"
    /\ UNCHANGED <<deduped, valueset_index, row_versions, rows, new_row, item,
                   vidx, calls, notRows>>

NextRows ==
    \/ RowsSkip
    \/ RowsOpen
    \/ RowsExpand
    \/ RowsAppend
    \/ RowsGroup

SpecRows == InitRows /\ [][NextRows]_vars

----------------------------------------------------------------------------
(* Claims about build_rows                                                 *)

\* the url starts with one of the five regional-authority prefixes
HasRegionalPrefix(url) ==
    \E k \in 1..5 :
        /\ Len(url) >= Len(NCTS_PREFIXES[k])
        /\ \A n \in 1..Len(NCTS_PREFIXES[k]) : url[n] = NCTS_PREFIXES[k][n]

\* C10: no row returned, and no row built on the way, is of a value set whose
\* url has no regional-authority prefix, and expand_func is never called for
\* such a value set, however many structures bind it.
C10_OnlyRegionalValueSets ==
    /\ \A k \in DOMAIN calls : HasRegionalPrefix(calls[k].url)
    /\ \A k \in DOMAIN rows : HasRegionalPrefix(rows[k].valueset_url)
    /\ \A k \in DOMAIN result : HasRegionalPrefix(result[k].valueset_url)

\* build_rows was given releases and two bindings, by two structures, of one
\* value set outside the regional prefixes, and has returned no row and made
\* no call.
C10_Witness ==
    /\ pcR = "done"
    /\ Len(deduped) = 2
    /\ deduped[1].valueset_url = deduped[2].valueset_url
    /\ ~HasRegionalPrefix(deduped[1].valueset_url)
    /\ deduped[1].structure_definition_url # deduped[2].structure_definition_url
    /\ row_versions # <<>>
    /\ result = <<>>
    /\ calls = <<>>

\* the bindings of the value set, by their place in the list given
BindingsOf(url) == {k \in DOMAIN deduped : deduped[k].valueset_url = url}

\* the (name, url) of the structure of a binding
PairOf(binding) ==
    <<binding.structure_definition_name, binding.structure_definition_url>>

\* the pairs of the chosen bindings, in the order of the list
RECURSIVE PairsAt(_, _)
PairsAt(places, from) ==
    IF from > Len(deduped) THEN <<>>
    ELSE (IF from \in places THEN <<PairOf(deduped[from])>> ELSE <<>>)
         \o PairsAt(places, from + 1)

\* the bindings of the value set that are the first with their pair
FirstOfPair(url) ==
    {k \in BindingsOf(url) :
        \A j \in BindingsOf(url) : j < k => PairOf(deduped[j]) # PairOf(deduped[k])}

\* the bindings of the value set whose structure has a name or a url
Named(url) == {k \in BindingsOf(url) : PairOf(deduped[k]) # <<"", <<>> >>}

\* the result has one row for each regional value set bound, and no other
OneRowPerRegionalUrl ==
    /\ \A k \in DOMAIN deduped :
          HasRegionalPrefix(deduped[k].valueset_url)
             => Cardinality({n \in DOMAIN result :
                               result[n].valueset_url = deduped[k].valueset_url}) = 1
    /\ \A n \in DOMAIN result : BindingsOf(result[n].valueset_url) # {}

\* no two bindings have the same (valueset_url, structure_definition_url):
\* what main's dedup step leaves
KeysDistinct ==
    \A i, j \in DOMAIN deduped :
        (/\ deduped[i].valueset_url = deduped[j].valueset_url
         /\ deduped[i].structure_definition_url = deduped[j].structure_definition_url)
        => i = j

\* C17 (as stated): for every list of bindings the result has one row per
\* distinct regional url, whose structure_definitions is the deduplicated,
\* order-preserving union of the (name, url) pairs of all bindings of the
\* value set.
C17_AsStated ==
    pcR = "done"
        => /\ OneRowPerRegionalUrl
           /\ \A n \in DOMAIN result :
                 result[n].structure_definitions
                    = PairsAt(FirstOfPair(result[n].valueset_url), 1)

\* C17 (amended): the result has one row per distinct regional url, whose
\* structure_definitions holds, in the order of the list, the (name, url) of
\* every binding of the value set whose structure has a name or a url; no
\* pair occurs twice in it when no two bindings share
\* (valueset_url, structure_definition_url).
C17_NamedPairsInOrder ==
    pcR = "done"
        => /\ OneRowPerRegionalUrl
           /\ \A n \in DOMAIN result :
                 /\ result[n].structure_definitions
                       = PairsAt(Named(result[n].valueset_url), 1)
                 /\ KeysDistinct => NoDuplicates(result[n].structure_definitions)

\* one value set bound by the structures Two and One, in that order, has one
\* row, naming Two before One
C17_Witness ==
    /\ pcR = "done"
    /\ Len(deduped) = 2
    /\ deduped[1].valueset_url = VsTest
    /\ deduped[2].valueset_url = VsTest
    /\ deduped[1].structure_definition_name = "Two"
    /\ deduped[2].structure_definition_name = "One"
    /\ Len(result) = 1
    /\ Len(result[1].structure_definitions) = 2
    /\ result[1].structure_definitions[1][1] = "Two"

\* the first call made for the value set and the release
FirstCall(url, version) ==
    calls[CHOOSE k \in DOMAIN calls :
            /\ calls[k].url = url /\ calls[k].version = version
            /\ \A j \in 1..(k - 1) : ~(calls[j].url = url /\ calls[j].version = version)]

\* C19: every row returned has a count entry for each release of the list
\* given and for no other; the entry holds the integer count when the
\* expansion made for the row returned one, and the no-data value "" when it
\* returned None.
C19_OneEntryPerRelease ==
    pcR = "done"
        => \A n \in DOMAIN result :
              /\ DOMAIN result[n].counts = Range(row_versions)
              /\ \A v \in Range(row_versions) :
                    LET given == FirstCall(result[n].valueset_url, v).count
                    IN IF given.type = "NoneType"
                       THEN result[n].counts[v] = [type |-> "str", num |-> 0, text |-> <<>>]
                       ELSE result[n].counts[v] = given /\ given.type = "int"

\* a row returned for two releases holds a count for one and no data for
\* the other
C19_Witness ==
    /\ pcR = "done"
    /\ Len(row_versions) = 2
    /\ Len(result) = 1
    /\ result[1].counts[row_versions[1]] = StrCell(<<>>)
    /\ result[1].counts[row_versions[2]] = IntCell(7)

\* how many times expand_func was called for the value set and the release
CallsFor(url, version) ==
    Cardinality({k \in DOMAIN calls :
                    calls[k].url = url /\ calls[k].version = version})

\* C24 (as stated): during row building expand_func is called exactly once
\* per (value set, release) pair; for a value set bound by several
\* structures no pair is requested more than once.
C24_AsStated ==
    /\ \A k \in DOMAIN calls : CallsFor(calls[k].url, calls[k].version) = 1
    /\ pcR = "done" =>
          \A k \in DOMAIN deduped : \A v \in Range(row_versions) :
              HasRegionalPrefix(deduped[k].valueset_url)
                 => CallsFor(deduped[k].valueset_url, v) = 1

\* C24 (amended): expand_func is called exactly once per (regional binding,
\* release) pair: a (value set, release) pair is requested as many times as
\* the list given holds bindings of the value set, once only when one
\* structure binds it, and never for a value set that is not regional.
C24_OncePerBindingAndRelease ==
    /\ \A k \in DOMAIN calls :
          CallsFor(calls[k].url, calls[k].version)
             <= Cardinality(BindingsOf(calls[k].url))
    /\ pcR = "done" =>
          \A k \in DOMAIN deduped : \A v \in Range(row_versions) :
              CallsFor(deduped[k].valueset_url, v)
                 = IF HasRegionalPrefix(deduped[k].valueset_url)
                   THEN Cardinality(BindingsOf(deduped[k].valueset_url))
                   ELSE 0

\* one value set bound by two structures was expanded twice for each of two
\* releases
C24_Witness ==
    /\ pcR = "done"
    /\ Len(deduped) = 2
    /\ deduped[1].valueset_url = deduped[2].valueset_url
    /\ deduped[1].structure_definition_url # deduped[2].structure_definition_url
    /\ Len(row_versions) = 2
    /\ Len(result) = 1
    /\ \A v \in Range(row_versions) : CallsFor(deduped[1].valueset_url, v) = 2

\* the value set is indexed with a non-empty name, or with a non-empty title
IndexedName(url) ==
    url \in DOMAIN valueset_index /\ valueset_index[url].name.some
       /\ valueset_index[url].name.str # ""

IndexedTitle(url) ==
    url \in DOMAIN valueset_index /\ valueset_index[url].title.some
       /\ valueset_index[url].title.str # ""

ReturnedTitle(call) == call.title.some /\ call.title.str # ""

\* the first non-empty title among the answers to the first calls made for
\* the value set, over the releases from place i on ("" when there is none)
RECURSIVE FirstTitleFrom(_, _)
FirstTitleFrom(url, i) ==
    IF i > Len(row_versions) THEN ""
    ELSE IF ReturnedTitle(FirstCall(url, row_versions[i]))
         THEN FirstCall(url, row_versions[i]).title.str
         ELSE FirstTitleFrom(url, i + 1)

\* the name the local definition gives the row, when it gives one
NamedLocally(r) ==
    /\ IndexedName(r.valueset_url) =>
          r.valueset_name = valueset_index[r.valueset_url].name.str
    /\ ~IndexedName(r.valueset_url) /\ IndexedTitle(r.valueset_url) =>
          r.valueset_name = valueset_index[r.valueset_url].title.str

\* C29 (as stated): a row's valueset_name is the local definition's name
\* (falling back to its title) when the value set is indexed with a non-empty
\* one; otherwise it is the first non-empty title returned by the server over
\* the releases in list order, and it is empty only if no expansion of that
\* value set returned a title.
C29_AsStated ==
    pcR = "done" =>
        \A n \in DOMAIN result :
            LET r == result[n]
            IN /\ NamedLocally(r)
               /\ ~IndexedName(r.valueset_url) /\ ~IndexedTitle(r.valueset_url) =>
                     /\ r.valueset_name # "" =>
                           r.valueset_name = FirstTitleFrom(r.valueset_url, 1)
                     /\ r.valueset_name = "" =>
                           \A k \in DOMAIN calls :
                               calls[k].url = r.valueset_url
                                  => ~ReturnedTitle(calls[k])

\* C29 (amended): a row's valueset_name is the local definition's name
\* (falling back to its title) when the value set is indexed with a non-empty
\* one; otherwise it is the first non-empty title among the answers to the
\* calls made for the first binding of the value set, over the releases in
\* list order, and it is empty exactly when none of those calls returned a
\* title, whatever the calls made for later bindings returned.
C29_NameLocalThenFirstBindingTitle ==
    pcR = "done" =>
        \A n \in DOMAIN result :
            LET r == result[n]
            IN /\ NamedLocally(r)
               /\ ~IndexedName(r.valueset_url) /\ ~IndexedTitle(r.valueset_url) =>
                     r.valueset_name = FirstTitleFrom(r.valueset_url, 1)

\* a value set with no local name, bound twice: the first call returned no
\* title, the second did, and the row bears it
C29_Witness ==
    /\ pcR = "done"
    /\ Len(deduped) = 2
    /\ Len(row_versions) = 2
    /\ Len(result) = 1
    /\ ~IndexedName(result[1].valueset_url)
    /\ ~IndexedTitle(result[1].valueset_url)
    /\ ~ReturnedTitle(calls[1])
    /\ ReturnedTitle(calls[2])
    /\ result[1].valueset_name = calls[2].title.str

\* the place in the list given of the first binding of the value set
FirstBinding(url) ==
    CHOOSE k \in BindingsOf(url) : \A j \in BindingsOf(url) : k <= j

\* the row built for the first binding of the value set
FirstRowOf(url) ==
    rows[CHOOSE k \in DOMAIN rows :
            /\ rows[k].valueset_url = url
            /\ \A j \in 1..(k - 1) : rows[j].valueset_url # url]

\* C30: when several bindings reference one value set, the merged row's
\* counts and name are those of the row built for the first such binding, from
\* the answers to the calls made for it; answers to the calls made for later
\* bindings change no cell (a cell that failed for the first binding stays
\* no-data even when a later call for the same value set and release
\* returned a count); and the rows come in the order in which their urls
\* first appear in the list given.
C30_FirstBindingWins ==
    pcR = "done" =>
        /\ \A n \in DOMAIN result :
              LET url == result[n].valueset_url
              IN /\ result[n].counts = FirstRowOf(url).counts
                 /\ result[n].valueset_name = FirstRowOf(url).valueset_name
                 /\ \A v \in Range(row_versions) :
                       (result[n].counts[v].type = "int")
                          <=> (FirstCall(url, v).count.type = "int")
        /\ \A n, m \in DOMAIN result :
              n < m => FirstBinding(result[n].valueset_url)
                          < FirstBinding(result[m].valueset_url)

\* a value set bound twice: the call for the first binding failed, the call
\* for the second returned a count with a title, and the merged row has no
\* data and no name
C30_Witness ==
    /\ pcR = "done"
    /\ Len(deduped) = 2
    /\ Len(row_versions) = 1
    /\ Len(calls) = 2
    /\ Len(result) = 1
    /\ calls[1].count = NoneCell
    /\ calls[2].count = IntCell(7)
    /\ result[1].counts[row_versions[1]] = StrCell(<<>>)

----------------------------------------------------------------------------
(* expand_valueset_count                                                   *)
(*                                                                         *)
(* A JSON value is a cell (type, num, text): a bool holds 1 or 0 in num, a *)
(* list its length, a str the sequence of its characters.  A uri is the    *)
(* sequence of its parts, so that startswith and "in" compare parts.       *)

BoolCell(b) == [type |-> "bool", num |-> IF b THEN 1 ELSE 0, text |-> <<>>]
FloatCell(n) == [type |-> "float", num |-> n, text |-> <<>>]
ListCell(n) == [type |-> "list", num |-> n, text |-> <<>>]

\* sub in s, for strs
in_str(sub, s) ==
    \E k \in 0..(Len(s) - Len(sub)) : SubSeq(s, k + 1, k + Len(sub)) = sub

\* str.lower(), part by part
lower(s) ==
    [k \in DOMAIN s |->
        IF s[k] = "SNOMED.INFO/SCT" THEN "snomed.info/sct"
        ELSE IF s[k] = "HTTP://" THEN "http://"
        ELSE s[k]]

SNOMED_BASE_SYSTEM == <<"http://", "snomed.info/sct">>
SNOMED_AU_SYSTEM == <<"http://", "snomed.info/sct", "/", "32506021000036107">>

\* the characters of a release id
ReleaseChars(v) == [k \in DOMAIN v |-> DigitChars[v[k] + 1]]

\* the uris a definition or a server may name
AuVersionUri(v) == SNOMED_AU_SYSTEM \o <<"/version/">> \o ReleaseChars(v)
AuVersionUriUpper(v) ==
    <<"HTTP://", "SNOMED.INFO/SCT", "/", "32506021000036107", "/version/">>
        \o ReleaseChars(v)
IntlVersionUri(v) ==
    SNOMED_BASE_SYSTEM \o <<"/", "900000000000207008", "/version/">> \o ReleaseChars(v)
LoincUri == <<"http://", "loinc.org">>

\* The releases asked for.
ExpandReleases == {R20250630, R20250531}

\* compose.include entries: dict says whether the entry is a JSON object;
\* an absent or non-str system or version is <<>>.
Include(sys, ver) == [dict |-> TRUE, system |-> sys, version |-> ver]
NotAnObject == [dict |-> FALSE, system |-> <<>>, version |-> <<>>]

\* The definitions supplied: None, and definitions by their compose.include.
NoDef == [given |-> FALSE, include |-> <<>>]
Def(includes) == [given |-> TRUE, include |-> includes]

ValueSetDefs ==
    { NoDef,
      Def(<<>>),
      Def(<<Include(SNOMED_AU_SYSTEM, <<>>)>>),
      Def(<<NotAnObject, Include(LoincUri, <<>>), Include(AuVersionUri(R20250531), <<>>)>>),
      Def(<<Include(SNOMED_BASE_SYSTEM, AuVersionUri(R20250630))>>),
      Def(<<Include(SNOMED_BASE_SYSTEM, <<>>)>>),
      Def(<<Include(SNOMED_BASE_SYSTEM, IntlVersionUri(R20250630))>>),
      Def(<<Include(LoincUri, AuVersionUri(R20250630))>>) }

\* an include that counts whenever its system is the base system
IncludeIsAnySnomed(include) ==
    include.dict /\ startswith(include.system, SNOMED_BASE_SYSTEM)

\* line 166-175: one compose.include entry names the regional code system
IncludeIsSnomedAu(include) ==
    /\ include.dict
    /\ \/ startswith(include.system, SNOMED_AU_SYSTEM)
       \/ /\ include.system = SNOMED_BASE_SYSTEM
          /\ in_str(SNOMED_AU_SYSTEM, include.version)

\* has_snomed_au_content(valueset)
has_snomed_au_content(valueset) ==
    \E k \in DOMAIN valueset.include : IncludeIsSnomedAu(valueset.include[k])

\* line 263: valueset_def and has_snomed_au_content(valueset_def)
has_snomed(def) == def.given /\ has_snomed_au_content(def)

\* str.strip()
Whitespace == {" ", "\n"}

RECURSIVE lstrip(_)
lstrip(t) == IF t # <<>> /\ Head(t) \in Whitespace THEN lstrip(Tail(t)) ELSE t

RECURSIVE rstrip(_)
rstrip(t) ==
    IF t # <<>> /\ t[Len(t)] \in Whitespace THEN rstrip(SubSeq(t, 1, Len(t) - 1)) ELSE t

strip(t) == rstrip(lstrip(t))

\* str.isdigit(): true of the decimal digits and of digits such as the
\* superscript two, which int() does not take
SuperscriptTwo == "SUPERSCRIPT TWO"

isdigit(t) ==
    t # <<>> /\ \A k \in DOMAIN t : IsDigitChar(t[k]) \/ t[k] = SuperscriptTwo

\* isinstance(value, int): a bool is an int
isinstance_int(value) == value.type \in {"int", "bool"}

\* line 53: int(stripped) raises ValueError
parse_int_raises(value) ==
    /\ ~isinstance_int(value)
    /\ value.type = "str"
    /\ isdigit(strip(value.text))
    /\ \E k \in DOMAIN strip(value.text) : ~IsDigitChar(strip(value.text)[k])

\* parse_int(value, default), where it returns
parse_int(value, default) ==
    IF isinstance_int(value) THEN value
    ELSE IF value.type = "str" /\ isdigit(strip(value.text))
         THEN IntCell(ParseDecimal(strip(value.text)))
         ELSE IntCell(default)

\* expansion.parameter entries: dict says whether the entry is a JSON object
Param(name, uri) == [dict |-> TRUE, name |-> name, valueUri |-> uri]
BadParam == [dict |-> FALSE, name |-> "", valueUri |-> <<>>]

ParameterLists ==
    { <<>>,
      <<Param("used-codesystem", AuVersionUri(R20250630))>>,
      <<Param("used-codesystem", AuVersionUri(R20250531))>>,
      <<Param("used-codesystem", AuVersionUriUpper(R20250531))>>,
      <<Param("used-codesystem", LoincUri), Param("used-codesystem", AuVersionUri(R20250630))>>,
      <<Param("used-codesystem", IntlVersionUri(R20250531)),
        Param("used-codesystem", AuVersionUri(R20250630))>>,
      <<Param("version", AuVersionUri(R20250630))>> }

\* expansion.total: absent, ints, strs, and values of other types
Totals ==
    { NoneCell, IntCell(42), IntCell(0), IntCell(-1),
      StrCell(<<"7">>), StrCell(<<" ", "7", "\n">>), StrCell(<<"-", "3">>),
      StrCell(<<"n", "/", "a">>), StrCell(<<>>), StrCell(<<SuperscriptTwo>>),
      BoolCell(TRUE), FloatCell(7) }

\* expansion.contains: absent, lists, and a value that is not a list
Contains == {NoneCell, ListCell(2), ListCell(0), StrCell(<<"x">>)}

\* payload.title and payload.name
TitleAndName ==
    { <<NoneStr, NoneStr>>, <<SomeStr("Server Title"), SomeStr("ServerName")>>,
      <<NoneStr, SomeStr("ServerName")>>, <<SomeStr(""), NoneStr>> }

\* The bodies that are JSON objects with an expansion that is absent or an
\* object, of parameters that are objects: object says whether the body is a
\* JSON object, expansion_object whether its expansion, if present and
\* truthy, is one.
Payloads ==
    {[object |-> TRUE, expansion_object |-> TRUE, title |-> tn[1], name |-> tn[2],
      parameter |-> ps, total |-> t, contains |-> c] :
        tn \in TitleAndName, ps \in ParameterLists, t \in Totals, c \in Contains}

NoPayload ==
    [object |-> TRUE, expansion_object |-> TRUE, title |-> NoneStr, name |-> NoneStr,
     parameter |-> <<>>, total |-> NoneCell, contains |-> NoneCell]

\* The bodies of another shape: JSON that is not an object (a list, null, a
\* str), an expansion that is a str, and parameter lists holding an entry
\* that is not an object, before or after the entry reporting the release.
MalformedPayloads ==
    { [NoPayload EXCEPT !.object = FALSE],
      [NoPayload EXCEPT !.expansion_object = FALSE, !.title = SomeStr("Server Title")] }
    \cup {[NoPayload EXCEPT !.parameter = ps, !.total = IntCell(42)] :
             ps \in { <<BadParam>>,
                      <<Param("used-codesystem", AuVersionUri(R20250630)), BadParam>> }}

\* What requests.get gives: RequestException, or a response with its status
\* and its body, which is JSON or not.
StatusCodes == {200, 204, 404}

Responses ==
    {[error |-> TRUE, status_code |-> 0, json |-> FALSE, payload |-> NoPayload]}
        \cup {[error |-> FALSE, status_code |-> st, json |-> FALSE, payload |-> NoPayload] :
                st \in StatusCodes}
        \cup {[error |-> FALSE, status_code |-> st, json |-> TRUE, payload |-> pl] :
                st \in StatusCodes, pl \in Payloads \cup MalformedPayloads}

\* a test that lets every status below 400 through
status_is_error(status_code) == status_code >= 400

\* line 245: response.status_code != 200
status_not_ok(status_code) == status_code # 200

\* x or y
Or(x, y) == IF Truthy(x) THEN x ELSE y

\* line 270-276: the valueUri of the first used-codesystem parameter that
\* names a SNOMED code system, or <<>> for None
RECURSIVE snomed_version_used(_)
snomed_version_used(params) ==
    IF params = <<>> THEN <<>>
    ELSE IF /\ Head(params).name = "used-codesystem"
            /\ Head(params).valueUri # <<>>
            /\ in_str(<<"snomed.info/sct">>, lower(Head(params).valueUri))
         THEN Head(params).valueUri
         ELSE snomed_version_used(Tail(params))

\* a comparison that wants the reported uri to be the release id itself
version_is_used(requested, used) == used = ReleaseChars(requested)

\* line 279: snomed_version in str(snomed_version_used)
version_in_used(requested, used) == in_str(ReleaseChars(requested), used)

\* line 266-284: the release the server used is not the one asked for
version_mismatch(def, payload, requested) ==
    /\ has_snomed(def)
    /\ snomed_version_used(payload.parameter) # <<>>
    /\ ~version_in_used(requested, snomed_version_used(payload.parameter))

\* line 269-270: param.get is reached on an entry that is not an object: the
\* loop came to it before the break at line 276
RECURSIVE param_get_raises(_)
param_get_raises(params) ==
    IF params = <<>> THEN FALSE
    ELSE IF ~Head(params).dict THEN TRUE
    ELSE IF snomed_version_used(<<Head(params)>>) # <<>> THEN FALSE
    ELSE param_get_raises(Tail(params))

\* line 258, 269-270, 286: .get on a value that is not a dict raises
\* AttributeError
payload_raises(def, payload) ==
    \/ ~payload.object
    \/ ~payload.expansion_object
    \/ has_snomed(def) /\ param_get_raises(payload.parameter)

InitExp ==
    /\ IdleNotExp
    /\ valueset_def \in ValueSetDefs
    /\ snomed_version \in ExpandReleases
    /\ response = <<>>
    /\ requests_made = 0
    /\ expansion_count = <<>>
    /\ valueset_title = <<>>
    /\ pcE = "call"

\* how expand_valueset_count returns
Return(cnt, title) ==
    /\ expansion_count' = cnt
    /\ valueset_title' = title
    /\ pcE' = "done"
    /\ UNCHANGED <<valueset_def, snomed_version, response, requests_made, notExp>>

\* line 234-240: the request
ExpandRequest ==
    /\ pcE = "call"
    /\ requests_made' = requests_made + 1
    /\ response' \in Responses
    /\ pcE' = "response"
    /\ UNCHANGED <<valueset_def, snomed_version, expansion_count, valueset_title, notExp>>

\* line 241-243: requests.RequestException
ExpandTransportError ==
    /\ pcE = "response"
    /\ response.error
    /\ Return(NoneCell, NoneStr)

\* line 245-249
ExpandBadStatus ==
    /\ pcE = "response"
    /\ ~response.error
    /\ status_not_ok(response.status_code)
    /\ Return(NoneCell, NoneStr)

\* the response went past the transport and status checks
StatusOk == pcE = "response" /\ ~response.error /\ ~status_not_ok(response.status_code)

\* line 251-255: json.JSONDecodeError
ExpandInvalidJson ==
    /\ StatusOk
    /\ ~response.json
    /\ Return(NoneCell, NoneStr)

\* line 258-286: AttributeError, which nothing catches
ExpandAttributeError ==
    /\ StatusOk
    /\ response.json
    /\ payload_raises(valueset_def, response.payload)
    /\ pcE' = "raised"
    /\ UNCHANGED <<valueset_def, snomed_version, response, requests_made,
                   expansion_count, valueset_title, notExp>>

\* line 257-284
ExpandMismatch ==
    /\ StatusOk
    /\ response.json
    /\ ~payload_raises(valueset_def, response.payload)
    /\ version_mismatch(valueset_def, response.payload, snomed_version)
    /\ Return(NoneCell, NoneStr)

\* the response went past the release check
Counting ==
    /\ StatusOk
    /\ response.json
    /\ ~payload_raises(valueset_def, response.payload)
    /\ ~version_mismatch(valueset_def, response.payload, snomed_version)

\* line 258: title = payload.get("title") or payload.get("name")
PayloadTitle == Or(response.payload.title, response.payload.name)

\* line 286-287: parse_int raises ValueError, which nothing catches
ExpandRaise ==
    /\ Counting
    /\ parse_int_raises(response.payload.total)
    /\ pcE' = "raised"
    /\ UNCHANGED <<valueset_def, snomed_version, response, requests_made,
                   expansion_count, valueset_title, notExp>>

\* line 286-289
ExpandTotal ==
    /\ Counting
    /\ ~parse_int_raises(response.payload.total)
    /\ parse_int(response.payload.total, -1).num >= 0
    /\ Return(parse_int(response.payload.total, -1), PayloadTitle)

\* line 290-292
ExpandContains ==
    /\ Counting
    /\ ~parse_int_raises(response.payload.total)
    /\ parse_int(response.payload.total, -1).num < 0
    /\ response.payload.contains.type = "list"
    /\ Return(IntCell(response.payload.contains.num), PayloadTitle)

\* line 293-294
ExpandUnexpected ==
    /\ Counting
    /\ ~parse_int_raises(response.payload.total)
    /\ parse_int(response.payload.total, -1).num < 0
    /\ response.payload.contains.type # "list"
    /\ Return(NoneCell, PayloadTitle)

NextExp ==
    \/ ExpandRequest
    \/ ExpandTransportError
    \/ ExpandBadStatus
    \/ ExpandInvalidJson
    \/ ExpandAttributeError
    \/ ExpandMismatch
    \/ ExpandRaise
    \/ ExpandTotal
    \/ ExpandContains
    \/ ExpandUnexpected

SpecExp == InitExp /\ [][NextExp]_vars

----------------------------------------------------------------------------
(* Claims about expand_valueset_count                                      *)

\* the call is over, by a return or by an exception
ExpandOver == pcE \in {"done", "raised"}

\* the response was a 200 with a JSON body
Got200 ==
    ExpandOver /\ ~response.error /\ response.status_code = 200 /\ response.json

\* the str is made of decimal digits only
DigitOnly(t) == t # <<>> /\ \A k \in DOMAIN t : t[k] \in Range(DigitChars)

\* the count the claim gives for a payload
StatedCount(pl) ==
    IF pl.total.type = "int" /\ pl.total.num >= 0 THEN IntCell(pl.total.num)
    ELSE IF pl.total.type = "str" /\ DigitOnly(pl.total.text)
         THEN IntCell(ParseDecimal(pl.total.text))
    ELSE IF pl.contains.type = "list" THEN IntCell(pl.contains.num)
    ELSE NoneCell

\* C11 (as stated): for a 200 response with no release mismatch the count is
\* expansion.total when that is a non-negative integer or a digit-only string,
\* otherwise the length of expansion.contains when that is a list, otherwise
\* None, the title being returned in each case; a total of any other shape is
\* treated as absent.
C11_AsStated ==
    (Got200 /\ ~version_mismatch(valueset_def, response.payload, snomed_version))
        => /\ pcE = "done"
           /\ expansion_count = StatedCount(response.payload)
           /\ valueset_title = Or(response.payload.title, response.payload.name)

\* C12: after a transport error or a status other than 200 the call returns
\* (None, None) without raising, whatever the body, and it has made exactly
\* one request; no call makes a second request.
C12_FailureGivesNoData ==
    /\ requests_made <= 1
    /\ (ExpandOver /\ (response.error \/ response.status_code # 200))
          => /\ pcE = "done"
             /\ expansion_count = NoneCell
             /\ valueset_title = NoneStr
             /\ requests_made = 1

\* a 404 whose body holds a valid total and a title has given (None, None)
C12_Witness ==
    /\ pcE = "done"
    /\ response.status_code = 404
    /\ response.json
    /\ response.payload.total = IntCell(42)
    /\ Truthy(response.payload.title)
    /\ expansion_count = NoneCell
    /\ valueset_title = NoneStr
    /\ requests_made = 1

\* the uri is one of a SNOMED code system, whatever its case
NamesSnomed(uri) ==
    \E k \in DOMAIN uri : uri[k] \in {"snomed.info/sct", "SNOMED.INFO/SCT"}

\* the used-codesystem parameters of the payload that name a SNOMED release
ReportedAt(pl) ==
    {k \in DOMAIN pl.parameter :
        pl.parameter[k].name = "used-codesystem" /\ NamesSnomed(pl.parameter[k].valueUri)}

\* the release the server reports: the first of them
Reported(pl) ==
    pl.parameter[CHOOSE k \in ReportedAt(pl) : \A j \in ReportedAt(pl) : k <= j].valueUri

\* the definition's compose.include names the regional code system
StatedRegional(def) ==
    \E k \in DOMAIN def.include :
        LET system == def.include[k].system
            version == def.include[k].version
        IN \/ Len(system) >= 4 /\ SubSeq(system, 1, 4) = SNOMED_AU_SYSTEM
           \/ /\ system = SNOMED_BASE_SYSTEM
              /\ \E j \in 1..(Len(version) - 3) : SubSeq(version, j, j + 3) = SNOMED_AU_SYSTEM

\* the release id occurs in the uri
HoldsRelease(uri, v) ==
    \E j \in 1..(Len(uri) - Len(v) + 1) : SubSeq(uri, j, j + Len(v) - 1) = ReleaseChars(v)

\* the payload's total is a count
TotalIsCount(pl) == pl.total.type = "int" /\ pl.total.num >= 0

C14_NoCheckWithoutRegionalContent ==
    /\ (pcE # "idle" /\ valueset_def.given)
          => (has_snomed_au_content(valueset_def) <=> StatedRegional(valueset_def))
    /\ (Got200 /\ ~(valueset_def.given /\ StatedRegional(valueset_def))
            /\ TotalIsCount(response.payload))
          => /\ pcE = "done"
             /\ expansion_count = response.payload.total
             /\ valueset_title = Or(response.payload.title, response.payload.name)

\* a definition naming the base system with an international version has had
\* its total returned although the server reports another release
C14_Witness ==
    /\ pcE = "done"
    /\ Got200
    /\ valueset_def = Def(<<Include(SNOMED_BASE_SYSTEM, IntlVersionUri(R20250630))>>)
    /\ snomed_version = R20250630
    /\ response.payload.parameter = <<Param("used-codesystem", AuVersionUri(R20250531))>>
    /\ expansion_count = IntCell(42)

\* the body of the response is of one of the shapes the claim lists
MalformedBody ==
    \/ ~response.json
    \/ ~response.payload.object
    \/ ~response.payload.expansion_object
    \/ \E k \in DOMAIN response.payload.parameter : ~response.payload.parameter[k].dict

\* C26 (as stated): for every 200 response, whatever the shape of its body
\* (not valid JSON, JSON that is not an object, an expansion that is not an
\* object, a parameter entry that is not an object), the call returns and
\* does not raise, with a None count when the body is of one of these shapes
\* and holds no total.
C26_AsStated ==
    (ExpandOver /\ ~response.error /\ response.status_code = 200 /\ MalformedBody)
        => /\ pcE = "done"
           /\ response.payload.total = NoneCell => expansion_count = NoneCell

----------------------------------------------------------------------------
(* main: the scan of the packages (extract_bound_valuesets and             *)
(* collect_valuesets) and the dedup step                                   *)

\* Bound: the files scanned in one run, over all packages.
MaxFiles == 3

\* element.binding.valueSet: a str, or absent or of another type
ValueSetStr(t) == [isstr |-> TRUE, text |-> t]
NoValueSet == [isstr |-> FALSE, text |-> <<>>]

SdOneUrl == <<"http", "://", "example.org", "/StructureDefinition/One">>
SdTwoUrl == <<"http", "://", "example.org", "/StructureDefinition/Two">>

\* a JSON file as read_json_file gives it; url <<>> and name "" stand for an
\* absent member, definition names the content of a ValueSet
Resource(type, url, name, snapshot, differential, definition) ==
    [resourceType |-> type, url |-> url, name |-> name, snapshot |-> snapshot,
     differential |-> differential, definition |-> definition]

\* The files: a structure whose binding is in both sections, once padded with
\* white space, beside a blank one; a structure binding the same value set and
\* one outside the regional prefixes; a structure without url and name; two
\* definitions of one value set and one of another; a file of another type.
ScanFiles ==
    { Resource("StructureDefinition", SdOneUrl, "One",
               <<ValueSetStr(<<" ">> \o VsTest \o <<"\n">>), ValueSetStr(<<" ", " ">>)>>,
               <<ValueSetStr(VsTest)>>, ""),
      Resource("StructureDefinition", SdTwoUrl, "Two",
               <<ValueSetStr(VsTest), NoValueSet, ValueSetStr(<<>>), ValueSetStr(VsOther)>>,
               <<>>, ""),
      Resource("StructureDefinition", <<>>, "", <<NoValueSet>>, <<ValueSetStr(VsRcpa)>>, ""),
      Resource("ValueSet", VsTest, "", <<>>, <<>>, "first definition"),
      Resource("ValueSet", VsTest, "", <<>>, <<>>, "second definition"),
      Resource("ValueSet", VsRcpa, "", <<>>, <<>>, "rcpa definition"),
      Resource("CodeSystem", VsOther, "", <<>>, <<>>, "") }

\* the ways of cutting a sequence of files into packages
RECURSIVE Cuts(_)
Cuts(fs) ==
    IF fs = <<>> THEN {<<>>}
    ELSE UNION {{<<SubSeq(fs, 1, k)>> \o rest : rest \in Cuts(SubSeq(fs, k + 1, Len(fs)))} :
                  k \in 1..Len(fs)}

\* The package lists scanned: main scans each package of each guide in turn.
ScanInputs ==
    UNION {Cuts(fs) : fs \in UNION {[1..n -> ScanFiles] : n \in 0..MaxFiles}}

\* line 124-138: the bindings of a list of elements
RECURSIVE ExtractElements(_, _)
ExtractElements(elements, data) ==
    IF elements = <<>> THEN <<>>
    ELSE LET value_set == Head(elements)
         IN (IF value_set.isstr /\ strip(value_set.text) # <<>>
             THEN <<[valueset_url |-> strip(value_set.text),
                     structure_definition_url |-> data.url,
                     structure_definition_name |-> data.name]>>
             ELSE <<>>)
            \o ExtractElements(Tail(elements), data)

\* line 113-138: the bindings of one file
ExtractFile(data) ==
    IF data.resourceType # "StructureDefinition" THEN <<>>
    ELSE ExtractElements(data.snapshot \o data.differential, data)

\* extract_bound_valuesets(package_dir)
RECURSIVE extract_bound_valuesets(_)
extract_bound_valuesets(files) ==
    IF files = <<>> THEN <<>>
    ELSE ExtractFile(Head(files)) \o extract_bound_valuesets(Tail(files))

\* url in dict
HasKey(dict, url) == \E k \in DOMAIN dict : dict[k].url = url

\* dict[url]
Lookup(dict, url) == dict[CHOOSE k \in DOMAIN dict : dict[k].url = url].definition

\* collect_valuesets(package_dir): a dict is the sequence of its items
RECURSIVE collect_valuesets(_, _)
collect_valuesets(files, valuesets) ==
    IF files = <<>> THEN valuesets
    ELSE LET data == Head(files)
         IN collect_valuesets(Tail(files),
                IF /\ data.resourceType = "ValueSet"
                   /\ data.url # <<>>
                   /\ ~HasKey(valuesets, data.url)
                THEN Append(valuesets, [url |-> data.url, definition |-> data.definition])
                ELSE valuesets)

\* dict.update(other): a key already there keeps its place and takes the
\* new value
RECURSIVE dict_update(_, _)
dict_update(dict, other) ==
    IF other = <<>> THEN dict
    ELSE dict_update(
            IF HasKey(dict, Head(other).url)
            THEN [k \in DOMAIN dict |->
                     IF dict[k].url = Head(other).url THEN Head(other) ELSE dict[k]]
            ELSE Append(dict, Head(other)),
            Tail(other))

\* a key that forgets the structure
dedup_key_valueset_only(binding) == <<binding.valueset_url, <<>> >>

\* line 1280: key
dedup_key(binding) == <<binding.valueset_url, binding.structure_definition_url>>

InitScan ==
    /\ IdleNotScan
    /\ scan_packages \in ScanInputs
    /\ pkg_idx = 0
    /\ bound_valuesets = <<>>
    /\ scan_index = <<>>
    /\ seen = {}
    /\ scan_deduped = <<>>
    /\ dedup_idx = 0
    /\ pcM = "scan"

\* line 1270
ScanExtract ==
    /\ pcM = "scan"
    /\ pkg_idx < Len(scan_packages)
    /\ bound_valuesets' =
          bound_valuesets \o extract_bound_valuesets(scan_packages[pkg_idx + 1])
    /\ pcM' = "collect"
    /\ UNCHANGED <<scan_packages, pkg_idx, scan_index, seen, scan_deduped,
                   dedup_idx, notScan>>

\* line 1271
ScanCollect ==
    /\ pcM = "collect"
    /\ scan_index' =
          dict_update(scan_index, collect_valuesets(scan_packages[pkg_idx + 1], <<>>))
    /\ pkg_idx' = pkg_idx + 1
    /\ pcM' = "scan"
    /\ UNCHANGED <<scan_packages, bound_valuesets, seen, scan_deduped, dedup_idx,
                   notScan>>

\* line 1273-1275: return 1
ScanNoBindings ==
    /\ pcM = "scan"
    /\ pkg_idx >= Len(scan_packages)
    /\ bound_valuesets = <<>>
    /\ pcM' = "exit1"
    /\ UNCHANGED <<scan_packages, pkg_idx, bound_valuesets, scan_index, seen,
                   scan_deduped, dedup_idx, notScan>>

\* line 1277-1278
DedupBegin ==
    /\ pcM = "scan"
    /\ pkg_idx >= Len(scan_packages)
    /\ bound_valuesets # <<>>
    /\ seen' = {}
    /\ scan_deduped' = <<>>
    /\ dedup_idx' = 0
    /\ pcM' = "dedup"
    /\ UNCHANGED <<scan_packages, pkg_idx, bound_valuesets, scan_index, notScan>>

\* line 1279-1283: the key is new
DedupKeep ==
    /\ pcM = "dedup"
    /\ dedup_idx < Len(bound_valuesets)
    /\ dedup_key(bound_valuesets[dedup_idx + 1]) \notin seen
    /\ seen' = seen \cup {dedup_key(bound_valuesets[dedup_idx + 1])}
    /\ scan_deduped' = Append(scan_deduped, bound_valuesets[dedup_idx + 1])
    /\ dedup_idx' = dedup_idx + 1
    /\ UNCHANGED <<scan_packages, pkg_idx, bound_valuesets, scan_index, pcM, notScan>>

\* line 1279-1281: the key was seen
DedupDrop ==
    /\ pcM = "dedup"
    /\ dedup_idx < Len(bound_valuesets)
    /\ dedup_key(bound_valuesets[dedup_idx + 1]) \in seen
    /\ dedup_idx' = dedup_idx + 1
    /\ UNCHANGED <<scan_packages, pkg_idx, bound_valuesets, scan_index, seen,
                   scan_deduped, pcM, notScan>>

\* line 1285
DedupDone ==
    /\ pcM = "dedup"
    /\ dedup_idx >= Len(bound_valuesets)
    /\ pcM' = "done"
    /\ UNCHANGED <<scan_packages, pkg_idx, bound_valuesets, scan_index, seen,
                   scan_deduped, dedup_idx, notScan>>

NextScan ==
    \/ ScanExtract
    \/ ScanCollect
    \/ ScanNoBindings
    \/ DedupBegin
    \/ DedupKeep
    \/ DedupDrop
    \/ DedupDone

SpecScan == InitScan /\ [][NextScan]_vars

----------------------------------------------------------------------------
(* Claims about the scan and the dedup step                                *)

\* the files scanned, in scan order
RECURSIVE Flatten(_)
Flatten(pkgs) == IF pkgs = <<>> THEN <<>> ELSE Head(pkgs) \o Flatten(Tail(pkgs))

\* the valueSet is a str with something in it besides white space
NonBlank(value_set) ==
    value_set.isstr /\ \E k \in DOMAIN value_set.text : value_set.text[k] \notin {" ", "\n"}

\* the elements of a structure that hold such a valueSet
RECURSIVE NonBlankBindings(_)
NonBlankBindings(files) ==
    IF files = <<>> THEN 0
    ELSE (IF Head(files).resourceType = "StructureDefinition"
          THEN Cardinality({k \in DOMAIN Head(files).snapshot : NonBlank(Head(files).snapshot[k])})
               + Cardinality({k \in DOMAIN Head(files).differential :
                                NonBlank(Head(files).differential[k])})
          ELSE 0)
         + NonBlankBindings(Tail(files))

\* the bindings that are the first of their (valueset_url, structure url)
FirstOfKey ==
    {k \in DOMAIN bound_valuesets :
        \A j \in 1..(k - 1) :
            \/ bound_valuesets[j].valueset_url # bound_valuesets[k].valueset_url
            \/ bound_valuesets[j].structure_definition_url
                  # bound_valuesets[k].structure_definition_url}

\* the n-th of them
NthFirstOfKey(n) ==
    CHOOSE k \in FirstOfKey : Cardinality({j \in FirstOfKey : j < k}) = n - 1

\* C15: the bindings emitted are those whose valueSet is non-empty after
\* trimming, with the url trimmed; after the dedup step the list holds one
\* binding per (valueset_url, structure_definition_url), the first of each
\* key, in the order of their first occurrences.
C15_OneBindingPerKey ==
    /\ \A k \in DOMAIN bound_valuesets :
          /\ bound_valuesets[k].valueset_url # <<>>
          /\ Head(bound_valuesets[k].valueset_url) \notin {" ", "\n"}
          /\ bound_valuesets[k].valueset_url[Len(bound_valuesets[k].valueset_url)]
                \notin {" ", "\n"}
    /\ pcM \in {"dedup", "done", "exit1"}
          => Len(bound_valuesets) = NonBlankBindings(Flatten(scan_packages))
    /\ pcM = "done"
          => /\ \A i, j \in DOMAIN scan_deduped :
                   (/\ scan_deduped[i].valueset_url = scan_deduped[j].valueset_url
                    /\ scan_deduped[i].structure_definition_url
                          = scan_deduped[j].structure_definition_url)
                   => i = j
             /\ Len(scan_deduped) = Cardinality(FirstOfKey)
             /\ \A n \in DOMAIN scan_deduped :
                   scan_deduped[n] = bound_valuesets[NthFirstOfKey(n)]

\* the binding of structure One, found in its snapshot and in its
\* differential, is once in the deduped list, which holds another binding too
C15_Witness ==
    /\ pcM = "done"
    /\ Cardinality({k \in DOMAIN bound_valuesets :
            bound_valuesets[k].valueset_url = VsTest
            /\ bound_valuesets[k].structure_definition_url = SdOneUrl}) = 2
    /\ Cardinality({k \in DOMAIN scan_deduped :
            scan_deduped[k].valueset_url = VsTest
            /\ scan_deduped[k].structure_definition_url = SdOneUrl}) = 1
    /\ Len(scan_deduped) >= 2

\* the files that define the url, in scan order
DefinedAt(url) ==
    {k \in DOMAIN Flatten(scan_packages) :
        /\ Flatten(scan_packages)[k].resourceType = "ValueSet"
        /\ Flatten(scan_packages)[k].url = url}

\* the first definition of the url encountered
FirstDefinition(url) ==
    Flatten(scan_packages)[CHOOSE k \in DefinedAt(url) : \A j \in DefinedAt(url) : k <= j].definition

\* C20 (as stated): once the packages are scanned, the index holds for each
\* url the first definition encountered, whether the later ones are in the
\* same package or in another.
C20_AsStated ==
    pcM \in {"dedup", "done", "exit1"}
        => \A k \in DOMAIN scan_index :
              scan_index[k].definition = FirstDefinition(scan_index[k].url)

----------------------------------------------------------------------------
(* validate_versions_on_server                                             *)

\* Bounds: the candidate releases and the value sets indexed.
MaxCandidates == 3
MaxIndexed == 2

\* compute_versions gives the candidates newest first
NewestFirst ==
    [k \in 1..4 |-> month_end_version([year |-> 2025, month |-> 8 - k, day |-> 1])]

CandidateLists == {SubSeq(NewestFirst, 1, n) : n \in 0..MaxCandidates}

\* The indexes: dicts of up to MaxIndexed value sets, in insertion order.
IndexedUrls == {VsOther, VsRanzcrHttp, VsTest, VsRcpa}

ProbeIndexes ==
    {ix \in UNION {[1..n -> [url : IndexedUrls, definition : {"definition"}]] :
                     n \in 0..MaxIndexed} :
        \A i, j \in DOMAIN ix : ix[i].url = ix[j].url => i = j}

\* The counts expand_valueset_count gives a probe.
ProbeCounts == {NoneCell, IntCell(0), IntCell(7)}

\* line 210-211: the first url of the index that is a regional one, or <<>>
RECURSIVE FirstNcts(_)
FirstNcts(index) ==
    IF index = <<>> THEN <<>>
    ELSE IF is_ncts_valueset(Head(index).url) THEN Head(index).url
    ELSE FirstNcts(Tail(index))

\* a test that takes a count of 0 for no count
count_is_truthy(cnt) == cnt # NoneCell /\ cnt.num # 0

\* line 216: count is not None
count_is_not_none(cnt) == cnt # NoneCell

InitVal ==
    /\ IdleNotVal
    /\ val_index \in ProbeIndexes
    /\ val_versions \in CandidateLists
    /\ probe_url = <<>>
    /\ valid_versions = <<>>
    /\ probes = <<>>
    /\ val_idx = 0
    /\ val_result = <<>>
    /\ pcP = "find"

\* line 210-213: a regional value set is found
ValidateFind ==
    /\ pcP = "find"
    /\ FirstNcts(val_index) # <<>>
    /\ probe_url' = FirstNcts(val_index)
    /\ valid_versions' = <<>>
    /\ val_idx' = 0
    /\ pcP' = "probe"
    /\ UNCHANGED <<val_index, val_versions, probes, val_result, notVal>>

\* line 224: none is found
ValidateNothingToProbe ==
    /\ pcP = "find"
    /\ FirstNcts(val_index) = <<>>
    /\ val_result' = val_versions
    /\ pcP' = "done"
    /\ UNCHANGED <<val_index, val_versions, probe_url, valid_versions, probes,
                   val_idx, notVal>>

\* line 214-220: one probe
ValidateProbe ==
    /\ pcP = "probe"
    /\ val_idx < Len(val_versions)
    /\ \E cnt \in ProbeCounts :
          /\ probes' = Append(probes, [url |-> probe_url,
                                       definition |-> Lookup(val_index, probe_url),
                                       version |-> val_versions[val_idx + 1],
                                       count |-> cnt])
          /\ valid_versions' =
                IF count_is_not_none(cnt)
                THEN Append(valid_versions, val_versions[val_idx + 1])
                ELSE valid_versions
    /\ val_idx' = val_idx + 1
    /\ UNCHANGED <<val_index, val_versions, probe_url, val_result, pcP, notVal>>

\* line 221
ValidateReturn ==
    /\ pcP = "probe"
    /\ val_idx >= Len(val_versions)
    /\ val_result' = valid_versions
    /\ pcP' = "done"
    /\ UNCHANGED <<val_index, val_versions, probe_url, valid_versions, probes,
                   val_idx, notVal>>

NextVal ==
    \/ ValidateFind
    \/ ValidateNothingToProbe
    \/ ValidateProbe
    \/ ValidateReturn

SpecVal == InitVal /\ [][NextVal]_vars

----------------------------------------------------------------------------
(* Claims about validate_versions_on_server                                *)

\* the index holds a url with a regional-authority prefix
IndexHoldsRegional == \E k \in DOMAIN val_index : HasRegionalPrefix(val_index[k].url)

\* the candidates whose probe gave a count, in their order
RECURSIVE Retained(_)
Retained(vs) ==
    IF vs = <<>> THEN <<>>
    ELSE (IF \E k \in DOMAIN probes :
                probes[k].version = Head(vs) /\ probes[k].count.type # "NoneType"
          THEN <<Head(vs)>> ELSE <<>>)
         \o Retained(Tail(vs))

\* C16: without a regional url in the index the candidates are returned
\* unchanged and nothing is probed; otherwise every probe is of one regional
\* value set of the index, there is exactly one probe per candidate, in the
\* candidates' order, and the list returned holds exactly the candidates whose
\* probe gave a count, in their original order.
C16_OneProbePerCandidate ==
    /\ \A k \in DOMAIN probes :
          /\ HasRegionalPrefix(probes[k].url)
          /\ probes[k].url = probes[1].url
          /\ \E j \in DOMAIN val_index : val_index[j].url = probes[k].url
          /\ probes[k].version = val_versions[k]
    /\ Len(probes) <= Len(val_versions)
    /\ pcP = "done"
          => IF IndexHoldsRegional
             THEN Len(probes) = Len(val_versions) /\ val_result = Retained(val_versions)
             ELSE probes = <<>> /\ val_result = val_versions

\* three candidates were probed against the second value set of the index,
\* the first being outside the regional prefixes; one probe gave None, one a
\* count of 0, and two releases are returned
C16_Witness ==
    /\ pcP = "done"
    /\ Len(val_index) = 2
    /\ ~HasRegionalPrefix(val_index[1].url)
    /\ Len(val_versions) = 3
    /\ Len(probes) = 3
    /\ probes[1].count = NoneCell
    /\ probes[2].count = IntCell(0)
    /\ val_result = <<val_versions[2], val_versions[3]>>

----------------------------------------------------------------------------
(* main: from the rows of build_rows to the writers                        *)

\* Bounds: the rows and the releases that reach this point.
MaxRows == 2
MaxColumns == 2

VsRanzcr == <<"https", "://", "ranzcr.com", "/fhir/ValueSet/x">>

\* the value sets of the rows, one per row
ReportUrls == <<VsTest, VsRcpa, VsRanzcr>>

\* the lists of releases left by the date filter: never empty here
ReportVersionLists == {SubSeq(NewestFirst, 1, n) : n \in 1..MaxColumns}

\* the cells build_rows writes
ReportCells == {StrCell(<<>>), IntCell(7)}

ReportNames == {"alpha", "Beta"}

\* the rows build_rows returns for the releases vs
ReportRowLists(vs) ==
    UNION {{[k \in 1..n |->
                [valueset_url |-> ReportUrls[k], valueset_name |-> names[k],
                 structure_definitions |-> <<>>, counts |-> cells[k]]] :
              names \in [1..n -> ReportNames],
              cells \in [1..n -> [Range(vs) -> ReportCells]]} :
           n \in 0..MaxRows}

\* row.get(version)
RowGet(r, version) == IF version \in DOMAIN r.counts THEN r.counts[version] ELSE NoneCell

\* line 1354: some row has data for the release
has_data(rs, version) ==
    \E k \in DOMAIN rs :
        RowGet(rs[k], version) # StrCell(<<>>) /\ RowGet(rs[k], version) # NoneCell

\* line 1352-1356: the releases with data, in order
RECURSIVE WithData(_, _)
WithData(rs, vs) ==
    IF vs = <<>> THEN <<>>
    ELSE (IF has_data(rs, Head(vs)) THEN <<Head(vs)>> ELSE <<>>) \o WithData(rs, Tail(vs))

\* line 1359-1362: row.pop(version, None) for the releases without data
PopEmpty(r, vs, kept) ==
    [r EXCEPT !.counts =
        [v \in {x \in DOMAIN r.counts : ~(x \in Range(vs) /\ x \notin Range(kept))} |->
            r.counts[v]]]

\* str(name).lower(), as its place in the order of the names
LowerKey(name) == IF name = "" THEN 0 ELSE IF name = "alpha" THEN 1 ELSE 2

\* line 1365: rows.sort(key=...), which is stable
RECURSIVE SortInsert(_, _)
SortInsert(sorted, r) ==
    IF sorted = <<>> THEN <<r>>
    ELSE IF LowerKey(sorted[Len(sorted)].valueset_name) <= LowerKey(r.valueset_name)
         THEN Append(sorted, r)
         ELSE Append(SortInsert(SubSeq(sorted, 1, Len(sorted) - 1), r), sorted[Len(sorted)])

RECURSIVE SortRows(_, _)
SortRows(rs, sorted) ==
    IF rs = <<>> THEN sorted ELSE SortRows(Tail(rs), SortInsert(sorted, Head(rs)))

InitRep ==
    /\ IdleNotRep
    /\ report_versions \in ReportVersionLists
    /\ report_rows \in ReportRowLists(report_versions)
    /\ versions_with_data = <<>>
    /\ written = <<>>
    /\ pcW = "filter"

\* line 1351-1356
ReportFilter ==
    /\ pcW = "filter"
    /\ versions_with_data' = WithData(report_rows, report_versions)
    /\ pcW' = "pop"
    /\ UNCHANGED <<report_rows, report_versions, written, notRep>>

\* line 1358-1365: the empty columns are popped and the rows sorted
ReportPopAndSort ==
    /\ pcW = "pop"
    /\ report_rows' =
          SortRows([k \in DOMAIN report_rows |->
                       PopEmpty(report_rows[k], report_versions, versions_with_data)],
                   <<>>)
    /\ pcW' = "write"
    /\ UNCHANGED <<report_versions, versions_with_data, written, notRep>>

\* line 1367-1372: write_tsv, write_html and write_chart_html are called
\* with rows and versions
ReportWrite ==
    /\ pcW = "write"
    /\ written' = <<[rows |-> report_rows, version_columns |-> report_versions]>>
    /\ pcW' = "done"
    /\ UNCHANGED <<report_rows, report_versions, versions_with_data, notRep>>

NextRep ==
    \/ ReportFilter
    \/ ReportPopAndSort
    \/ ReportWrite

SpecRep == InitRep /\ [][NextRep]_vars

----------------------------------------------------------------------------
(* Claims about the output handed to the writers                           *)

\* some row handed over holds a count for the release
SomeRowCounts(v) ==
    \E k \in DOMAIN written[1].rows :
        /\ v \in DOMAIN written[1].rows[k].counts
        /\ written[1].rows[k].counts[v].type = "int"

\* C18 (as stated): a release for which no row has a count is absent from
\* every row handed to the writers and from the release-column list handed
\* to them.
C18_AsStated ==
    pcW = "done"
        => \A v \in Range(NewestFirst) :
              ~SomeRowCounts(v)
                 => /\ \A k \in DOMAIN written[1].rows : v \notin DOMAIN written[1].rows[k].counts
                    /\ v \notin Range(written[1].version_columns)

----------------------------------------------------------------------------
(* main: the whole run, from the configured IGs to the status returned     *)
(*                                                                         *)
(* The scan of one IG, validate_versions_on_server and build_rows are      *)
(* followed here by their requests only; their own specifications follow   *)
(* what they compute.                                                      *)

\* Bounds: the IGs configured and versions_to_compare.
MaxIgs == 2
MaxMonths == 2

\* A binding found in a package, and the definition of a value set.
Binding(url) ==
    [valueset_url |-> url, structure_definition_url |-> SdOneUrl,
     structure_definition_name |-> "One"]

Defined(url) == [url |-> url, definition |-> "definition"]

\* What a configured IG leads to: configured says whether it has an id and a
\* version, found whether gather_packages returned any package (it returns
\* none when the root directory is missing), bound and defined what
\* extract_bound_valuesets and collect_valuesets give over its packages.
Ig(configured, found, bound, defined) ==
    [configured |-> configured, found |-> found, bound |-> bound, defined |-> defined]

IgOptions ==
    { Ig(FALSE, FALSE, <<>>, <<>>),
      Ig(TRUE, FALSE, <<>>, <<>>),
      Ig(TRUE, TRUE, <<>>, <<>>),
      Ig(TRUE, TRUE, <<Binding(VsTest)>>, <<>>),
      Ig(TRUE, TRUE, <<Binding(VsTest)>>, <<Defined(VsTest)>>),
      Ig(TRUE, TRUE, <<Binding(VsOther)>>, <<>>) }

IgLists == UNION {[1..n -> IgOptions] : n \in 0..MaxIgs}

\* dev_mode is off, or on with no TSV file, with one that reads, or with one
\* that read_tsv_data fails on
DevModes == {"off", "on", "tsv", "tsv_unreadable"}

\* dt.date.today()
Todays ==
    { [year |-> 2025, month |-> 7, day |-> 4],
      [year |-> 2025, month |-> 7, day |-> 28] }

\* args.sctver: None, or a str
NoSctver == [given |-> FALSE, text |-> <<>>]
Sctver(t) == [given |-> TRUE, text |-> t]

Sctvers ==
    { NoSctver,
      Sctver(<<>>),
      Sctver(<<"2", "0", "2", "5", "0", "6", "3", "0">>),
      Sctver(<<"2", "0", "2", "5", "0", "6", "3", "1">>),
      Sctver(<<"2", "0", "2", "5", "1", "2", "3", "1">>),
      Sctver(<<"2", "0", "2", "5", "0", "7", "1">>),
      Sctver(<<"J", "u", "l", "y">>) }

\* line 1291-1296: the sample of dev mode: the regional bindings, every
\* third of the first 150, at most 50
dev_sample(items) ==
    LET ncts == SelectSeq(items, LAMBDA vs : is_ncts_valueset(vs.valueset_url))
        upto == IF Len(ncts) < 150 THEN Len(ncts) ELSE 150
        taken == (upto + 2) \div 3
        sampled == [k \in 1..taken |-> ncts[3 * (k - 1) + 1]]
    IN SubSeq(sampled, 1, IF taken < 50 THEN taken ELSE 50)

\* line 1277-1283: the first item of every key, in order
RECURSIVE dedup(_, _)
dedup(items, keys) ==
    IF items = <<>> THEN <<>>
    ELSE IF dedup_key(Head(items)) \in keys THEN dedup(Tail(items), keys)
    ELSE <<Head(items)>> \o dedup(Tail(items), keys \cup {dedup_key(Head(items))})

\* compute_versions(count), for a reference date of these years
RECURSIVE versions_from(_, _, _)
versions_from(y, m, n) ==
    IF n <= 0 THEN <<>>
    ELSE <<month_end_version([year |-> y, month |-> m, day |-> 1])>>
            \o versions_from(StepBack(y, m)[1], StepBack(y, m)[2], n - 1)

compute_versions(n, dte) == versions_from(dte.year, dte.month, n)

\* the day after
next_day(dte) ==
    IF dte.day < monthrange(dte.year, dte.month)
    THEN [dte EXCEPT !.day = @ + 1]
    ELSE IF dte.month < 12
         THEN [year |-> dte.year, month |-> dte.month + 1, day |-> 1]
         ELSE [year |-> dte.year + 1, month |-> 1, day |-> 1]

\* date + dt.timedelta(days=n)
RECURSIVE add_days(_, _)
add_days(dte, n) == IF n = 0 THEN dte ELSE add_days(next_day(dte), n - 1)

\* date > date
date_gt(a, b) ==
    \/ a.year > b.year
    \/ a.year = b.year /\ a.month > b.month
    \/ a.year = b.year /\ a.month = b.month /\ a.day > b.day

\* dt.datetime.strptime(t, "%Y%m%d").date(): four digits of year, then a
\* month of two digits or one and a day of two digits or one, the longer
\* tried first; ok is FALSE where it raises ValueError
strptime(t) ==
    LET digits == \A k \in DOMAIN t : IsDigitChar(t[k])
        num(a, b) == ParseDecimal(SubSeq(t, a, b))
        splits == << <<2, 2>>, <<2, 1>>, <<1, 2>>, <<1, 1>> >>
        fits(s) ==
            /\ Len(t) = 4 + s[1] + s[2]
            /\ num(5, 4 + s[1]) \in 1..12
            /\ num(5 + s[1], Len(t)) \in 1..31
            /\ s[1] = 1 => t[5] # "0"
            /\ s[2] = 1 => t[Len(t)] # "0"
        fitting == {k \in DOMAIN splits : fits(splits[k])}
        s == splits[CHOOSE k \in fitting : \A j \in fitting : k <= j]
        dte == [year |-> num(1, 4), month |-> num(5, 4 + s[1]),
                day |-> num(5 + s[1], Len(t))]
    IN IF digits /\ fitting # {} /\ DateValid(dte.year, dte.month, dte.day)
       THEN [ok |-> TRUE, date |-> dte]
       ELSE [ok |-> FALSE, date |-> <<>>]

\* line 1309: if args.sctver
sctver_given(sctver) == sctver.given /\ sctver.text # <<>>

\* a cutoff that is always seven days from today
cutoff_default_only(sctver, dte) == add_days(dte, 7)

\* line 1309-1319: max_version_date
max_version_date(sctver, dte) ==
    IF sctver_given(sctver) THEN strptime(sctver.text).date ELSE add_days(dte, 7)

\* line 1321-1342: the versions that parse and are not after the cutoff
RECURSIVE filter_versions(_, _)
filter_versions(vs, cutoff) ==
    IF vs = <<>> THEN <<>>
    ELSE LET parsed == strptime(ReleaseChars(Head(vs)))
         IN (IF parsed.ok /\ ~date_gt(parsed.date, cutoff) THEN <<Head(vs)>> ELSE <<>>)
               \o filter_versions(Tail(vs), cutoff)

\* a main that gives up as soon as one root is missing
not_bound_or_root_missing(bound) ==
    bound = <<>> \/ \E i \in DOMAIN main_igs : ~main_igs[i].found

\* line 1273: if not bound_valuesets
not_bound(bound) == bound = <<>>

\* a main that hands build_rows the candidates of compute_versions
candidate_versions == compute_versions(MaxMonths, main_today)

\* line 1349: the versions build_rows is given
build_rows_versions == main_versions

InitMain ==
    /\ IdleNotMain
    /\ main_igs \in IgLists
    /\ main_dev \in DevModes
    /\ ig_idx = 0
    /\ main_bound = <<>>
    /\ main_index = <<>>
    /\ main_deduped = <<>>
    /\ main_today = <<>>
    /\ main_versions = <<>>
    /\ main_validated = <<>>
    /\ main_sctver = <<>>
    /\ main_idx = 0
    /\ main_item = 0
    /\ main_requests = <<>>
    /\ in_flight = 0
    /\ outputs = {}
    /\ rows_called = FALSE
    /\ status = "running"
    /\ pcMain = "start"

\* a main that returns 0 on every path (a status is the str of its digits)
ExitZero(code) ==
    /\ status' = "0"
    /\ pcMain' = "exit"

\* return <code>
Exit(code) ==
    /\ status' = code
    /\ pcMain' = "exit"

\* line 1218-1221: no IG is configured: return 1
MainNoIgs ==
    /\ pcMain = "start"
    /\ main_igs = <<>>
    /\ Exit("1")
    /\ UNCHANGED <<main_igs, main_dev, ig_idx, main_bound, main_index,
                   main_deduped, main_today, main_versions, main_validated,
                   main_sctver, main_idx, main_item, main_requests, in_flight,
                   outputs, rows_called, notMain>>

\* line 1224-1233: dev mode, and read_tsv_data fails on the TSV file: return 1
MainDevReadFails ==
    /\ pcMain = "start"
    /\ main_igs # <<>>
    /\ main_dev = "tsv_unreadable"
    /\ Exit("1")
    /\ UNCHANGED <<main_igs, main_dev, ig_idx, main_bound, main_index,
                   main_deduped, main_today, main_versions, main_validated,
                   main_sctver, main_idx, main_item, main_requests, in_flight,
                   outputs, rows_called, notMain>>

\* line 1224-1250: dev mode with a TSV file: the HTML, the charts and the web
\* folder are written again from it: return 0
MainDevRegenerate ==
    /\ pcMain = "start"
    /\ main_igs # <<>>
    /\ main_dev = "tsv"
    /\ outputs' = outputs \cup {"html", "charts", "web"}
    /\ Exit("0")
    /\ UNCHANGED <<main_igs, main_dev, ig_idx, main_bound, main_index,
                   main_deduped, main_today, main_versions, main_validated,
                   main_sctver, main_idx, main_item, main_requests, in_flight,
                   rows_called, notMain>>

\* line 1252-1253
MainBegin ==
    /\ pcMain = "start"
    /\ main_igs # <<>>
    /\ main_dev \in {"off", "on"}
    /\ pcMain' = "scan"
    /\ UNCHANGED <<main_igs, main_dev, ig_idx, main_bound, main_index,
                   main_deduped, main_today, main_versions, main_validated,
                   main_sctver, main_idx, main_item, main_requests, in_flight,
                   outputs, rows_called, status, notMain>>

\* line 1256-1266: the IG has no id or version, or gather_packages returned
\* no package: a warning, and the next IG
MainSkipIg ==
    /\ pcMain = "scan"
    /\ ig_idx < Len(main_igs)
    /\ ~main_igs[ig_idx + 1].configured \/ ~main_igs[ig_idx + 1].found
    /\ ig_idx' = ig_idx + 1
    /\ UNCHANGED <<main_igs, main_dev, main_bound, main_index, main_deduped,
                   main_today, main_versions, main_validated, main_sctver,
                   main_idx, main_item, main_requests, in_flight, outputs,
                   rows_called, status, pcMain, notMain>>

\* line 1268-1271: the packages of the IG are scanned
MainScanIg ==
    /\ pcMain = "scan"
    /\ ig_idx < Len(main_igs)
    /\ main_igs[ig_idx + 1].configured /\ main_igs[ig_idx + 1].found
    /\ main_bound' = main_bound \o main_igs[ig_idx + 1].bound
    /\ main_index' = dict_update(main_index, main_igs[ig_idx + 1].defined)
    /\ ig_idx' = ig_idx + 1
    /\ UNCHANGED <<main_igs, main_dev, main_deduped, main_today, main_versions,
                   main_validated, main_sctver, main_idx, main_item,
                   main_requests, in_flight, outputs, rows_called, status,
                   pcMain, notMain>>

\* line 1273-1275: no binding was found in any IG: return 1
MainNoBindings ==
    /\ pcMain = "scan"
    /\ ig_idx >= Len(main_igs)
    /\ not_bound(main_bound)
    /\ Exit("1")
    /\ UNCHANGED <<main_igs, main_dev, ig_idx, main_bound, main_index,
                   main_deduped, main_today, main_versions, main_validated,
                   main_sctver, main_idx, main_item, main_requests, in_flight,
                   outputs, rows_called, notMain>>

\* line 1277-1299: dedup, the sample of dev mode, compute_versions
MainPlan ==
    /\ pcMain = "scan"
    /\ ig_idx >= Len(main_igs)
    /\ ~not_bound(main_bound)
    /\ main_deduped' = IF main_dev = "on" THEN dev_sample(dedup(main_bound, {}))
                       ELSE dedup(main_bound, {})
    /\ \E dte \in Todays, versions_to_compare \in 0..MaxMonths :
          /\ main_today' = dte
          /\ main_versions' = compute_versions(versions_to_compare, dte)
    /\ main_idx' = 0
    /\ pcMain' = "validate"
    /\ UNCHANGED <<main_igs, main_dev, ig_idx, main_bound, main_index,
                   main_validated, main_sctver, main_item, main_requests,
                   in_flight, outputs, rows_called, status, notMain>>

\* line 210-224: no regional value set is indexed: the versions are returned
\* as they are, without a request
MainValidateNoProbe ==
    /\ pcMain = "validate"
    /\ FirstNcts(main_index) = <<>>
    /\ main_validated' = main_versions
    /\ pcMain' = "validated"
    /\ UNCHANGED <<main_igs, main_dev, ig_idx, main_bound, main_index,
                   main_deduped, main_today, main_versions, main_sctver,
                   main_idx, main_item, main_requests, in_flight, outputs,
                   rows_called, status, notMain>>

\* line 214-215, 240: the probe of a version is issued
MainProbeIssue ==
    /\ pcMain = "validate"
    /\ FirstNcts(main_index) # <<>>
    /\ main_idx < Len(main_versions)
    /\ in_flight = 0
    /\ main_requests' = Append(main_requests,
                               [kind |-> "probe", url |-> FirstNcts(main_index),
                                version |-> main_versions[main_idx + 1]])
    /\ in_flight' = in_flight + 1
    /\ UNCHANGED <<main_igs, main_dev, ig_idx, main_bound, main_index,
                   main_deduped, main_today, main_versions, main_validated,
                   main_sctver, main_idx, main_item, outputs, rows_called,
                   status, pcMain, notMain>>

\* line 215-220: the probe is answered: the version is kept when the count
\* is not None
MainProbeAnswer ==
    /\ pcMain = "validate"
    /\ in_flight = 1
    /\ \E cnt \in {NoneCell, IntCell(7)} :
          main_validated' = IF count_is_not_none(cnt)
                            THEN Append(main_validated, main_versions[main_idx + 1])
                            ELSE main_validated
    /\ in_flight' = in_flight - 1
    /\ main_idx' = main_idx + 1
    /\ UNCHANGED <<main_igs, main_dev, ig_idx, main_bound, main_index,
                   main_deduped, main_today, main_versions, main_sctver,
                   main_item, main_requests, outputs, rows_called, status,
                   pcMain, notMain>>

\* line 221: return valid_versions
MainProbesDone ==
    /\ pcMain = "validate"
    /\ FirstNcts(main_index) # <<>>
    /\ main_idx >= Len(main_versions)
    /\ in_flight = 0
    /\ pcMain' = "validated"
    /\ UNCHANGED <<main_igs, main_dev, ig_idx, main_bound, main_index,
                   main_deduped, main_today, main_versions, main_validated,
                   main_sctver, main_idx, main_item, main_requests, in_flight,
                   outputs, rows_called, status, notMain>>

\* line 1302-1306: no version is left: return 1
MainNoVersions ==
    /\ pcMain = "validated"
    /\ main_validated = <<>>
    /\ main_versions' = main_validated
    /\ Exit("1")
    /\ UNCHANGED <<main_igs, main_dev, ig_idx, main_bound, main_index,
                   main_deduped, main_today, main_validated, main_sctver,
                   main_idx, main_item, main_requests, in_flight, outputs,
                   rows_called, notMain>>

\* line 1309-1315: args.sctver is not a date: return 1
MainBadCutoff ==
    /\ pcMain = "validated"
    /\ main_validated # <<>>
    /\ \E sctver \in Sctvers :
          /\ sctver_given(sctver)
          /\ ~strptime(sctver.text).ok
          /\ main_sctver' = sctver
    /\ main_versions' = main_validated
    /\ Exit("1")
    /\ UNCHANGED <<main_igs, main_dev, ig_idx, main_bound, main_index,
                   main_deduped, main_today, main_validated, main_idx,
                   main_item, main_requests, in_flight, outputs, rows_called,
                   notMain>>

\* line 1308-1344: the versions after the cutoff are removed
MainFilter ==
    /\ pcMain = "validated"
    /\ main_validated # <<>>
    /\ \E sctver \in Sctvers :
          /\ sctver_given(sctver) => strptime(sctver.text).ok
          /\ main_sctver' = sctver
          /\ main_versions' =
                filter_versions(main_validated, max_version_date(sctver, main_today))
    /\ pcMain' = "filtered"
    /\ UNCHANGED <<main_igs, main_dev, ig_idx, main_bound, main_index,
                   main_deduped, main_today, main_validated, main_idx,
                   main_item, main_requests, in_flight, outputs, rows_called,
                   status, notMain>>

\* line 1345-1347: no version is left: return 1
MainNothingLeft ==
    /\ pcMain = "filtered"
    /\ main_versions = <<>>
    /\ Exit("1")
    /\ UNCHANGED <<main_igs, main_dev, ig_idx, main_bound, main_index,
                   main_deduped, main_today, main_versions, main_validated,
                   main_sctver, main_idx, main_item, main_requests, in_flight,
                   outputs, rows_called, notMain>>

\* line 1349: build_rows is called
MainBuildRows ==
    /\ pcMain = "filtered"
    /\ main_versions # <<>>
    /\ rows_called' = TRUE
    /\ main_item' = 0
    /\ main_idx' = 0
    /\ pcMain' = "rows"
    /\ UNCHANGED <<main_igs, main_dev, ig_idx, main_bound, main_index,
                   main_deduped, main_today, main_versions, main_validated,
                   main_sctver, main_requests, in_flight, outputs, status,
                   notMain>>

\* line 305-311, 332: the item is not of a regional value set, or its
\* versions are done: the next item
MainRowNext ==
    /\ pcMain = "rows"
    /\ main_item < Len(main_deduped)
    /\ in_flight = 0
    /\ \/ ~is_ncts_valueset(main_deduped[main_item + 1].valueset_url)
       \/ main_idx >= Len(build_rows_versions)
    /\ main_item' = main_item + 1
    /\ main_idx' = 0
    /\ UNCHANGED <<main_igs, main_dev, ig_idx, main_bound, main_index,
                   main_deduped, main_today, main_versions, main_validated,
                   main_sctver, main_requests, in_flight, outputs, rows_called,
                   status, pcMain, notMain>>

\* line 325-326, 240: the expansion for one item and one version is issued
MainRowIssue ==
    /\ pcMain = "rows"
    /\ main_item < Len(main_deduped)
    /\ is_ncts_valueset(main_deduped[main_item + 1].valueset_url)
    /\ main_idx < Len(build_rows_versions)
    /\ in_flight = 0
    /\ main_requests' = Append(main_requests,
                               [kind |-> "row",
                                url |-> main_deduped[main_item + 1].valueset_url,
                                version |-> build_rows_versions[main_idx + 1]])
    /\ in_flight' = in_flight + 1
    /\ UNCHANGED <<main_igs, main_dev, ig_idx, main_bound, main_index,
                   main_deduped, main_today, main_versions, main_validated,
                   main_sctver, main_idx, main_item, outputs, rows_called,
                   status, pcMain, notMain>>

\* line 326-331: the expansion is answered
MainRowAnswer ==
    /\ pcMain = "rows"
    /\ in_flight = 1
    /\ in_flight' = in_flight - 1
    /\ main_idx' = main_idx + 1
    /\ UNCHANGED <<main_igs, main_dev, ig_idx, main_bound, main_index,
                   main_deduped, main_today, main_versions, main_validated,
                   main_sctver, main_item, main_requests, outputs, rows_called,
                   status, pcMain, notMain>>

\* line 258-286: the answer makes expand_valueset_count raise, and nothing
\* in validate_versions_on_server, build_rows or main catches it
MainUncaught ==
    /\ pcMain \in {"validate", "rows"}
    /\ in_flight = 1
    /\ in_flight' = in_flight - 1
    /\ Exit("raised")
    /\ UNCHANGED <<main_igs, main_dev, ig_idx, main_bound, main_index,
                   main_deduped, main_today, main_versions, main_validated,
                   main_sctver, main_idx, main_item, main_requests, outputs,
                   rows_called, notMain>>

\* line 1351-1389: the rows are written: the TSV, the HTML table, the charts
\* and the web folder: return 0
MainWrite ==
    /\ pcMain = "rows"
    /\ main_item >= Len(main_deduped)
    /\ outputs' = outputs \cup {"tsv", "html", "charts", "web"}
    /\ Exit("0")
    /\ UNCHANGED <<main_igs, main_dev, ig_idx, main_bound, main_index,
                   main_deduped, main_today, main_versions, main_validated,
                   main_sctver, main_idx, main_item, main_requests, in_flight,
                   rows_called, notMain>>

NextMain ==
    \/ MainNoIgs
    \/ MainDevReadFails
    \/ MainDevRegenerate
    \/ MainBegin
    \/ MainSkipIg
    \/ MainScanIg
    \/ MainNoBindings
    \/ MainPlan
    \/ MainValidateNoProbe
    \/ MainProbeIssue
    \/ MainProbeAnswer
    \/ MainProbesDone
    \/ MainNoVersions
    \/ MainBadCutoff
    \/ MainFilter
    \/ MainNothingLeft
    \/ MainBuildRows
    \/ MainRowNext
    \/ MainRowIssue
    \/ MainRowAnswer
    \/ MainUncaught
    \/ MainWrite

SpecMain == InitMain /\ [][NextMain]_vars

----------------------------------------------------------------------------
(* Claims about main                                                       *)

\* main went through the scan of the packages (not the dev mode shortcut)
Scanned == main_igs # <<>> /\ main_dev \in {"off", "on"}

Returned == pcMain = "exit" /\ status # "raised"

\* the date filter ran
Filtered ==
    /\ pcMain \in {"filtered", "rows", "exit"}
    /\ main_sctver # <<>>
    /\ main_sctver.given /\ main_sctver.text # <<>> => strptime(main_sctver.text).ok

\* C21: a run that returns a non-zero status has written no output file and
\* has not called build_rows; a run that wrote an output file returns 0; and
\* a run that found no binding, was left no release by the server or by the
\* cutoff, or was given a cutoff that is no date, returns a non-zero status.
C21_NoOutputOnFailure ==
    /\ status = "1" => outputs = {} /\ ~rows_called
    /\ outputs # {} => status = "0"
    /\ (Returned /\ Scanned /\ (main_bound = <<>> \/ main_versions = <<>>))
          => status = "1"
    /\ (Returned /\ main_sctver # <<>> /\ ~Filtered) => status = "1"

\* a run whose releases passed the probe and were all removed by the cutoff
\* has returned 1
C21_Witness ==
    /\ pcMain = "exit"
    /\ status = "1"
    /\ main_requests # <<>>
    /\ main_validated # <<>>
    /\ Filtered
    /\ main_versions = <<>>
    /\ outputs = {}

\* the resolution of the IG at place i returned no package
ResolvedEmpty(i) ==
    i <= ig_idx /\ main_igs[i].configured /\ ~main_igs[i].found

\* the bindings found in the IGs scanned so far
RECURSIVE BoundUpTo(_)
BoundUpTo(n) ==
    IF n = 0 THEN <<>>
    ELSE BoundUpTo(n - 1)
            \o (IF main_igs[n].configured /\ main_igs[n].found
                THEN main_igs[n].bound ELSE <<>>)

\* C22 (as stated): the run returns a non-zero status whenever the resolution
\* of a configured root package returned the empty sequence.
C22_AsStated ==
    (Returned /\ Scanned /\ \E i \in DOMAIN main_igs : ResolvedEmpty(i))
        => status = "1"

\* C22 (amended): an IG whose resolution returned the empty sequence is
\* passed over and adds no binding; the run returns a non-zero status at the
\* end of the scan exactly when no binding was found in any IG, as when
\* every configured root is missing, and goes on with the bindings of the
\* other IGs otherwise.
C22_FatalOnlyWhenNothingBound ==
    /\ pcMain = "scan" => main_bound = BoundUpTo(ig_idx)
    /\ (Returned /\ Scanned /\ main_today = <<>>)
          => status = "1" /\ main_bound = <<>> /\ main_requests = <<>>
    /\ (Returned /\ Scanned /\ \A i \in DOMAIN main_igs : ~main_igs[i].found)
          => status = "1"
    /\ (Scanned /\ pcMain \notin {"start", "scan"} /\ BoundUpTo(Len(main_igs)) # <<>>)
          => main_today # <<>> \/ status = "raised"

\* a run over two IGs, the first with its root missing, has written its
\* output and returned 0
C22_Witness ==
    /\ pcMain = "exit"
    /\ status = "0"
    /\ "tsv" \in outputs
    /\ Len(main_igs) = 2
    /\ main_igs[1].configured /\ ~main_igs[1].found

\* the day of a release id, and of a date, as one number
ReleaseDay(v) == IdYear(v) * 10000 + IdMonth(v) * 100 + IdDay(v)

DayOf(dte) == dte.year * 10000 + dte.month * 100 + dte.day

\* seven days after the date
PlusSeven(dte) ==
    IF dte.day + 7 <= LastDayOf(dte.year, dte.month)
    THEN DayOf(dte) + 7
    ELSE IF dte.month < 12
         THEN dte.year * 10000 + (dte.month + 1) * 100
                 + (dte.day + 7 - LastDayOf(dte.year, dte.month))
         ELSE (dte.year + 1) * 10000 + 100
                 + (dte.day + 7 - LastDayOf(dte.year, dte.month))

\* a cutoff was supplied
CutoffGiven == main_sctver.given /\ main_sctver.text # <<>>

\* the limit that applies: the cutoff when one was supplied, or seven days
\* from today
Limit ==
    IF CutoffGiven THEN DayOf(strptime(main_sctver.text).date)
    ELSE PlusSeven(main_today)

\* the releases of the list that are not after the day, in order
RECURSIVE NotAfter(_, _)
NotAfter(vs, day) ==
    IF vs = <<>> THEN <<>>
    ELSE (IF ReleaseDay(Head(vs)) <= day THEN <<Head(vs)>> ELSE <<>>)
            \o NotAfter(Tail(vs), day)

\* C23 (as stated): after the date filter the list holds no release after
\* the cutoff supplied and no release after today + 7 days.
C23_AsStated ==
    Filtered =>
        \A k \in DOMAIN main_versions :
            /\ CutoffGiven => ReleaseDay(main_versions[k]) <= Limit
            /\ ReleaseDay(main_versions[k]) <= PlusSeven(main_today)

\* C23 (amended): after the date filter the list holds, in their original
\* order, exactly the validated releases that are not after the limit that
\* applies: the cutoff when one is supplied, and today + 7 days only when
\* none is.
C23_OnlyTheApplicableLimit ==
    Filtered => main_versions = NotAfter(main_validated, Limit)

\* under a cutoff at the end of the year a release more than seven days
\* ahead of today was kept, after an older one
C23_Witness ==
    /\ Filtered
    /\ CutoffGiven
    /\ Len(main_validated) = 2
    /\ main_versions = main_validated
    /\ ReleaseDay(main_versions[1]) > PlusSeven(main_today)

\* the release was probed
Probed(v) ==
    \E k \in DOMAIN main_requests :
        main_requests[k].kind = "probe" /\ main_requests[k].version = v

ProbesBeforeRows ==
    \A i, j \in DOMAIN main_requests :
        (main_requests[i].kind = "row" /\ main_requests[j].kind = "probe") => j < i

\* C25 (as stated): every probe request is over before the first
\* row-building request is issued, at most one request is in flight at any
\* time, and row-building requests are issued only for releases that passed
\* both the probe and the date filter.
C25_AsStated ==
    /\ ProbesBeforeRows
    /\ in_flight <= 1
    /\ \A k \in DOMAIN main_requests :
          main_requests[k].kind = "row" =>
              /\ Probed(main_requests[k].version)
              /\ \E n \in DOMAIN main_validated :
                    main_validated[n] = main_requests[k].version
              /\ ReleaseDay(main_requests[k].version) <= Limit

\* C25 (amended): every probe request is over before the first row-building
\* request is issued, at most one request is in flight at any time, and
\* row-building requests are issued only for releases that
\* validate_versions_on_server returned and the date filter kept: releases
\* that passed their probe when a regional value set is indexed, and
\* candidates that were never probed when none is.
C25_ProbesThenRowsOneAtATime ==
    /\ ProbesBeforeRows
    /\ in_flight <= 1
    /\ (in_flight = 1 /\ main_requests[Len(main_requests)].kind = "row")
          => \A k \in DOMAIN main_requests :
                main_requests[k].kind = "probe" => k < Len(main_requests)
    /\ \A k \in DOMAIN main_requests :
          main_requests[k].kind = "row" =>
              /\ Filtered
              /\ \E n \in DOMAIN main_validated :
                    main_validated[n] = main_requests[k].version
              /\ ReleaseDay(main_requests[k].version) <= Limit
              /\ Probed(main_requests[k].version) <=> FirstNcts(main_index) # <<>>

\* a run probed two releases, one without success, and then asked for the
\* other one only
C25_Witness ==
    /\ pcMain = "exit"
    /\ status = "0"
    /\ Len(main_requests) = 3
    /\ main_requests[1].kind = "probe"
    /\ main_requests[2].kind = "probe"
    /\ main_requests[3].kind = "row"
    /\ Len(main_validated) = 1

====
